---- MODULE Spec2Model ----
(***************************************************************************)
(* A model of the News-Sentiment-Analyzer backend.                         *)
(*                                                                         *)
(*   backend/models/article.py          ContentSentiment, HeadlineSentiment*)
(*   backend/models/analysis_report.py  AnalysisReport                     *)
(*   backend/services/sentiment_engine.py  SentimentEngine                 *)
(*   backend/services/news_aggregator.py   NewsAggregator                  *)
(*   backend/app.py                        start_analysis                  *)
(*                                                                         *)
(* Python floats are modelled as exact rationals [num, den] in lowest      *)
(* terms (den > 0); None is its own value.  Float rounding is not          *)
(* modelled, except for the rounding error of the classifier's softmax.    *)
(***************************************************************************)
EXTENDS Integers, Sequences, FiniteSets, TLC

VARIABLES
    articles,         \* the list of AnalyzedArticle handed to AnalysisReport
    report,           \* the AnalysisReport last constructed
    made_by,          \* which entry point constructed it
    ctor_args,        \* the field values that entry point gave the constructor
    engine_op,        \* the SentimentEngine method last called
    engine_text,      \* its text argument
    engine_path,      \* the path the call took through the method
    engine_raised,    \* whether an exception left the method
    headline_result,  \* the HeadlineSentiment it returned
    content_result,   \* the ContentSentiment it returned
    fetch_pc,         \* where fetch_articles is: idle, gather, process, done
    next_query,       \* index of the query the gather loop handles next
    feed_log,         \* per query handled: what the feed source did
    unique_links,     \* fetch_articles' set of links already gathered
    raw_entries,      \* fetch_articles' list of entries to process
    tasks,            \* one record per submitted worker task
    fetched_articles, \* fetch_articles' list of collected articles
    analysis_pc,      \* where start_analysis is
    unique_articles,  \* start_analysis: the de-duplicated articles
    analyzed_articles,\* start_analysis: the analyzed articles
    response,         \* what start_analysis answered
    dedup_done,       \* whether deduplicate_articles has been called
    dedup_input,      \* an article list given to deduplicate_articles
    dedup_output,     \* what deduplicate_articles returned for it
    dedup_again,      \* what it returned for its own output
    breaker,          \* the circuit state of the protected operation
    now,              \* the clock, in seconds
    callers,          \* per worker: where its call of the operation is
    resolve_call,     \* a call of resolve_google_urls: its links and result
    extract_calls,    \* the calls of extract_content made so far
    truncate_call,    \* a call of _truncate_text: its text and result
    batch_call,       \* a call of analyze_articles_batch: articles and result
    redis_client,     \* FinancialDataService.redis_client
    cache,            \* the entries of the Redis store, per cache key
    lookup,           \* the last call of get_ticker_info
    multi_pc,         \* where a call of get_multi_ticker_data is
    multi_request,    \* its tickers, each with what the upstream does
    multi_tasks,      \* its lookups: their place in the executor, results
    multi_result      \* the map it returned

reportVars == <<articles, report, made_by, ctor_args>>
engineVars == <<engine_op, engine_text, engine_path, engine_raised,
                headline_result, content_result>>
fetchVars == <<fetch_pc, next_query, feed_log, unique_links, raw_entries,
               tasks, fetched_articles>>
analysisVars == <<analysis_pc, unique_articles, analyzed_articles, response>>
dedupVars == <<dedup_done, dedup_input, dedup_output, dedup_again>>
newsVars == <<fetchVars, analysisVars, dedupVars>>
resilienceVars == <<breaker, now, callers>>
tickerVars == <<redis_client, cache, lookup>>
multiVars == <<multi_pc, multi_request, multi_tasks, multi_result>>
helperVars == <<resolve_call, extract_calls, truncate_call, batch_call, tickerVars,
                multiVars>>
vars == <<articles, report, made_by, ctor_args, engine_op, engine_text, engine_path,
          engine_raised, headline_result, content_result,
          fetch_pc, next_query, feed_log, unique_links, raw_entries, tasks,
          fetched_articles, analysis_pc, unique_articles, analyzed_articles,
          response, dedup_done, dedup_input, dedup_output, dedup_again,
          breaker, now, callers, resolve_call, extract_calls,
          truncate_call, batch_call, redis_client, cache, lookup,
          multi_pc, multi_request, multi_tasks, multi_result>>

(***************************************************************************)
(* Bounds of the model.                                                    *)
(***************************************************************************)
MaxArticles == 5
MaxCtorArticles == 1
MaxTextLen == 2

(***************************************************************************)
(* Exact rational arithmetic standing for Python's float arithmetic.       *)
(***************************************************************************)
Abs(n) == IF n < 0 THEN -n ELSE n

RECURSIVE GCD(_, _)
GCD(a, b) == IF b = 0 THEN a ELSE GCD(b, a % b)

R(n, d) ==
    LET g == GCD(Abs(n), Abs(d))
        s == IF d < 0 THEN -1 ELSE 1
    IN  [num |-> s * (n \div g), den |-> s * (d \div g)]

Zero == [num |-> 0, den |-> 1]
One == [num |-> 1, den |-> 1]
None == [num |-> 0, den |-> 0]

RAdd(a, b) == R(a.num * b.den + b.num * a.den, a.den * b.den)
RSub(a, b) == R(a.num * b.den - b.num * a.den, a.den * b.den)
RMul(a, b) == R(a.num * b.num, a.den * b.den)
RDiv(a, b) == R(a.num * b.den, a.den * b.num)
RNeg(a) == [num |-> -a.num, den |-> a.den]
RLt(a, b) == a.num * b.den < b.num * a.den
RGt(a, b) == RLt(b, a)
RLe(a, b) == ~RLt(b, a)
RAbs(a) == [num |-> Abs(a.num), den |-> a.den]

(***************************************************************************)
(* backend/models/article.py                                               *)
(***************************************************************************)
SentimentLabels == {"Positive", "Negative", "Neutral"}

\* A dict's values summed, as Python's sum(d.values()).
RECURSIVE SumValues(_)
SumValues(d) ==
    IF DOMAIN d = {} THEN Zero
    ELSE LET k == CHOOSE x \in DOMAIN d : TRUE
         IN  RAdd(d[k], SumValues([x \in DOMAIN d \ {k} |-> d[x]]))

ContentSentiment(confidence, label, pNeg, pNeu, pPos) ==
    [confidence |-> confidence, label |-> label,
     probabilities |-> ("Negative" :> pNeg @@ "Neutral" :> pNeu @@ "Positive" :> pPos)]

HeadlineSentiment(score, label) == [score |-> score, label |-> label]

\* HeadlineSentiment.validate
HeadlineSentimentValidate(hs) ==
    IF RLt(hs.score, RNeg(One)) \/ RGt(hs.score, One) THEN FALSE
    ELSE IF hs.label \notin {"Positive", "Negative", "Neutral"} THEN FALSE
    ELSE TRUE

\* ContentSentiment.validate
ContentSentimentValidate(cs) ==
    IF RLt(cs.confidence, Zero) \/ RGt(cs.confidence, One) THEN FALSE
    ELSE IF cs.label \notin {"Positive", "Negative", "Neutral"} THEN FALSE
    ELSE IF RGt(RAbs(RSub(SumValues(cs.probabilities), One)), R(1, 100)) THEN FALSE
    ELSE TRUE

\* AnalyzedArticle.validate; parts_ok is the verdict of article.validate() and
\* headline_sentiment.validate(), which the report never looks into.
AnalyzedArticleValidate(a) ==
    a.parts_ok /\ ContentSentimentValidate(a.content_sentiment)

AnalyzedArticle(ok, cs) == [parts_ok |-> ok, content_sentiment |-> cs]

\* The analyzed articles the report operations are run on.
ArticlePool ==
    { AnalyzedArticle(TRUE, ContentSentiment(R(9, 10), "Positive", R(1, 20), R(1, 20), R(9, 10))),
      AnalyzedArticle(TRUE, ContentSentiment(R(1, 2), "Negative", R(1, 2), R(1, 4), R(1, 4))),
      AnalyzedArticle(TRUE, ContentSentiment(R(33, 100), "Neutral", R(33, 100), R(34, 100), R(33, 100))),
      AnalyzedArticle(TRUE, ContentSentiment(Zero, "Positive", R(1, 2), R(1, 2), Zero)),
      AnalyzedArticle(TRUE, ContentSentiment(Zero, "Negative", Zero, R(1, 2), R(1, 2))),
      AnalyzedArticle(TRUE, ContentSentiment(R(1, 2), "Mixed", R(1, 4), R(1, 4), R(1, 2))),
      AnalyzedArticle(FALSE, ContentSentiment(R(9, 10), "Positive", R(1, 20), R(1, 20), R(9, 10))) }

(***************************************************************************)
(* backend/models/analysis_report.py                                       *)
(***************************************************************************)
EmptyDict == [k \in {} |-> 0]

\* Mutant of DistributionLoop: the loop stops one article early.
RECURSIVE DistributionLoopStopsEarly(_, _, _)
DistributionLoopStopsEarly(arts, i, distribution) ==
    IF i >= Len(arts) THEN distribution
    ELSE LET sentiment_label == arts[i].content_sentiment.label
         IN  IF sentiment_label \in DOMAIN distribution
             THEN DistributionLoopStopsEarly(arts, i + 1,
                      [distribution EXCEPT ![sentiment_label] = @ + 1])
             ELSE DistributionLoopStopsEarly(arts, i + 1, distribution)

\* AnalysisReport._calculate_sentiment_distribution: the loop from article i on.
RECURSIVE DistributionLoop(_, _, _)
DistributionLoop(arts, i, distribution) ==
    IF i > Len(arts) THEN distribution
    ELSE LET sentiment_label == arts[i].content_sentiment.label
         IN  IF sentiment_label \in DOMAIN distribution
             THEN DistributionLoop(arts, i + 1,
                      [distribution EXCEPT ![sentiment_label] = @ + 1])
             ELSE DistributionLoop(arts, i + 1, distribution)

calculate_sentiment_distribution(arts) ==
    DistributionLoop(arts, 1, ("Positive" :> 0 @@ "Negative" :> 0 @@ "Neutral" :> 0))

\* The label-to-direction branch of _calculate_net_sentiment_score.
Direction(label) ==
    IF label = "Positive" THEN One
    ELSE IF label = "Negative" THEN RNeg(One)
    ELSE Zero

\* Mutant of NetScoreLoop: a Neutral article's confidence is left out of the
\* total weight.
RECURSIVE NetScoreLoopSkipsNeutral(_, _, _, _)
NetScoreLoopSkipsNeutral(arts, i, weighted_score, total_weight) ==
    IF i > Len(arts)
    THEN IF RGt(total_weight, Zero) THEN RDiv(weighted_score, total_weight) ELSE Zero
    ELSE LET content_sentiment == arts[i].content_sentiment
             confidence == content_sentiment.confidence
             direction == Direction(content_sentiment.label)
         IN  NetScoreLoopSkipsNeutral(arts, i + 1,
                 RAdd(weighted_score, RMul(direction, confidence)),
                 IF direction = Zero THEN total_weight
                 ELSE RAdd(total_weight, confidence))

\* Mutant of NetScoreLoop: the weighted sum is returned without dividing by the
\* total weight.
RECURSIVE NetScoreLoopUndivided(_, _, _, _)
NetScoreLoopUndivided(arts, i, weighted_score, total_weight) ==
    IF i > Len(arts)
    THEN IF RGt(total_weight, Zero) THEN weighted_score ELSE Zero
    ELSE LET content_sentiment == arts[i].content_sentiment
             confidence == content_sentiment.confidence
             direction == Direction(content_sentiment.label)
         IN  NetScoreLoopUndivided(arts, i + 1,
                 RAdd(weighted_score, RMul(direction, confidence)),
                 RAdd(total_weight, confidence))

\* AnalysisReport._calculate_net_sentiment_score: the loop from article i on.
RECURSIVE NetScoreLoop(_, _, _, _)
NetScoreLoop(arts, i, weighted_score, total_weight) ==
    IF i > Len(arts)
    THEN IF RGt(total_weight, Zero) THEN RDiv(weighted_score, total_weight) ELSE Zero
    ELSE LET content_sentiment == arts[i].content_sentiment
             confidence == content_sentiment.confidence
             direction == Direction(content_sentiment.label)
         IN  NetScoreLoop(arts, i + 1,
                          RAdd(weighted_score, RMul(direction, confidence)),
                          RAdd(total_weight, confidence))

calculate_net_sentiment_score(arts) ==
    IF arts = <<>> THEN Zero ELSE NetScoreLoop(arts, 1, Zero, Zero)

\* Mutant of determine_market_signal: the comparisons are not strict.
determine_market_signal_inclusive(net_sentiment_score) ==
    IF RLe(R(15, 100), net_sentiment_score) THEN "BULLISH"
    ELSE IF RLe(net_sentiment_score, R(-15, 100)) THEN "BEARISH"
    ELSE "NEUTRAL"

\* AnalysisReport._determine_market_signal
determine_market_signal(net_sentiment_score) ==
    IF RGt(net_sentiment_score, R(15, 100)) THEN "BULLISH"
    ELSE IF RLt(net_sentiment_score, R(-15, 100)) THEN "BEARISH"
    ELSE "NEUTRAL"

\* The dataclass constructor followed by AnalysisReport.__post_init__.
AnalysisReport(total_articles, sentiment_distribution, net_sentiment_score, market_signal, arts, processing_time) ==
    LET distribution == IF DOMAIN sentiment_distribution = {}
                        THEN calculate_sentiment_distribution(arts)
                        ELSE sentiment_distribution
        score == IF net_sentiment_score = None
                 THEN calculate_net_sentiment_score(arts)
                 ELSE net_sentiment_score
        signal == IF market_signal = ""
                  THEN determine_market_signal(score)
                  ELSE market_signal
    IN  [total_articles |-> total_articles,
         sentiment_distribution |-> distribution,
         net_sentiment_score |-> score,
         market_signal |-> signal,
         articles |-> arts,
         processing_time |-> processing_time]

\* Mutant of validate: a report of zero articles is rejected.
validate_rejects_empty(r) ==
    IF r.total_articles <= 0 THEN FALSE
    ELSE IF r.net_sentiment_score = None THEN FALSE
    ELSE IF RLt(r.net_sentiment_score, RNeg(One)) \/ RGt(r.net_sentiment_score, One) THEN FALSE
    ELSE IF r.market_signal \notin {"BULLISH", "BEARISH", "NEUTRAL"} THEN FALSE
    ELSE IF r.processing_time < 0 THEN FALSE
    ELSE IF DOMAIN r.sentiment_distribution # {"Positive", "Negative", "Neutral"} THEN FALSE
    ELSE IF Len(r.articles) # r.total_articles THEN FALSE
    ELSE \A i \in 1..Len(r.articles) : AnalyzedArticleValidate(r.articles[i])

\* AnalysisReport.validate
validate(r) ==
    IF r.total_articles < 0 THEN FALSE
    ELSE IF r.net_sentiment_score = None THEN FALSE
    ELSE IF RLt(r.net_sentiment_score, RNeg(One)) \/ RGt(r.net_sentiment_score, One) THEN FALSE
    ELSE IF r.market_signal \notin {"BULLISH", "BEARISH", "NEUTRAL"} THEN FALSE
    ELSE IF r.processing_time < 0 THEN FALSE
    ELSE IF DOMAIN r.sentiment_distribution # {"Positive", "Negative", "Neutral"} THEN FALSE
    ELSE IF Len(r.articles) # r.total_articles THEN FALSE
    ELSE \A i \in 1..Len(r.articles) : AnalyzedArticleValidate(r.articles[i])

\* AnalysisReport.create_from_articles
create_from_articles(arts, processing_time) ==
    AnalysisReport(Len(arts), EmptyDict, None, "", arts, processing_time)

\* AnalyzedArticle.from_dict and ContentSentiment.from_dict: the fields are copied.
AnalyzedArticle_from_dict(d) ==
    AnalyzedArticle(d.parts_ok,
        [confidence |-> d.content_sentiment.confidence,
         label |-> d.content_sentiment.label,
         probabilities |-> d.content_sentiment.probabilities])

\* AnalysisReport.from_dict
from_dict(data) ==
    AnalysisReport(data.total_articles, data.sentiment_distribution,
                   data.net_sentiment_score, data.market_signal,
                   [i \in 1..Len(data.articles) |-> AnalyzedArticle_from_dict(data.articles[i])],
                   data.processing_time)

\* Arguments the constructor and from_dict are called with.
ProcessingTimes == {-1, 0}
TotalsFor(arts) == {Len(arts), Len(arts) + 1, -1}
DistributionPool ==
    { EmptyDict,
      ("Positive" :> 0 @@ "Negative" :> 0 @@ "Neutral" :> 0),
      ("Positive" :> 1 @@ "Negative" :> 0 @@ "Neutral" :> 0),
      ("Positive" :> 2 @@ "Negative" :> 1 @@ "Neutral" :> 0),
      ("Positive" :> 1 @@ "Negative" :> 0),
      ("Positive" :> 1 @@ "Negative" :> 0 @@ "Neutral" :> 0 @@ "Mixed" :> 0) }
ScorePool ==
    { None, Zero, R(15, 100), R(-15, 100), R(16, 100), R(-16, 100), R(9, 10), R(3, 2) }
SignalPool == { "", "BULLISH", "BEARISH", "NEUTRAL", "HOLD" }

Args(total_articles, sentiment_distribution, net_sentiment_score, market_signal, processing_time) ==
    [total_articles |-> total_articles,
     sentiment_distribution |-> sentiment_distribution,
     net_sentiment_score |-> net_sentiment_score,
     market_signal |-> market_signal,
     processing_time |-> processing_time]

NoArgs == Args(0, EmptyDict, None, "", 0)

NoReport ==
    [total_articles |-> 0, sentiment_distribution |-> EmptyDict,
     net_sentiment_score |-> None, market_signal |-> "",
     articles |-> <<>>, processing_time |-> 0]

EngineIdle ==
    /\ engine_op = "none"
    /\ engine_text = [kind |-> "none", chars |-> <<>>]
    /\ engine_path = "none"
    /\ engine_raised = FALSE
    /\ headline_result = HeadlineSentiment(Zero, "")
    /\ content_result = ContentSentiment(Zero, "", Zero, Zero, Zero)

NoResponse == [status |-> 0, error |-> "", completed |-> FALSE]

FetchIdle ==
    /\ fetch_pc = "idle"
    /\ next_query = 1
    /\ feed_log = <<>>
    /\ unique_links = {}
    /\ raw_entries = <<>>
    /\ tasks = <<>>
    /\ fetched_articles = <<>>

AnalysisIdle ==
    /\ analysis_pc = "idle"
    /\ unique_articles = <<>>
    /\ analyzed_articles = <<>>
    /\ response = NoResponse

DedupIdle ==
    /\ dedup_done = FALSE
    /\ dedup_input = <<>>
    /\ dedup_output = <<>>
    /\ dedup_again = <<>>

NewsIdle == FetchIdle /\ AnalysisIdle /\ DedupIdle

\* The workers that call the protected operation, the circuit state before
\* any call, and a worker that has made no call.
NumWorkers == 2
Workers == 1..NumWorkers
Null == 0 - 1
CircuitState(state, consecutive_failures, opened_at) ==
    [state |-> state, consecutive_failures |-> consecutive_failures,
     opened_at |-> opened_at]
IdleCaller ==
    [pc |-> "idle", seen |-> "none", trial |-> FALSE, attempt |-> 0,
     invocations |-> 0, delay |-> 0, outcome |-> "none", result |-> "none"]

ResilienceIdle ==
    /\ breaker = CircuitState("Closed", 0, Null)
    /\ now = 0
    /\ callers = [w \in Workers |-> IdleCaller]

\* No call of a helper has been made.
NoResolve ==
    [done |-> FALSE, urls |-> <<>>, heads |-> <<>>, runs |-> <<>>, value |-> <<>>]
ResolveIdle == resolve_call = NoResolve
ExtractIdle == extract_calls = <<>>
NoTruncate == [done |-> FALSE, text |-> <<>>, value |-> <<>>]
TruncateIdle == truncate_call = NoTruncate
NoBatch ==
    [done |-> FALSE, articles |-> <<>>, vaders |-> <<>>, classifiers |-> <<>>,
     value |-> <<>>]
BatchIdle == batch_call = NoBatch
\* A ticker symbol: its text, its length, and whether str.isalnum() holds.
Ticker(symbol, length, alnum) == [symbol |-> symbol, length |-> length, alnum |-> alnum]
TickerPool ==
    {Ticker("AAPL", 4, TRUE), Ticker("MSFT", 4, TRUE), Ticker("BRK.B", 5, FALSE)}
CacheKeys == {"AAPL", "MSFT"}

\* A TickerInfo, None being NoInfo.
TickerInfo(symbol, current_price) == [symbol |-> symbol, current_price |-> current_price]
NoInfo == TickerInfo("", 0 - 1)
CacheEntry(value, expires_at) == [value |-> value, expires_at |-> expires_at]
NoEntry == CacheEntry(NoInfo, 0 - 1)
NoUpstream == <<"none", "none", "none">>
NoLookup ==
    [n |-> 0, ticker |-> Ticker("", 0, FALSE), get |-> "ok", set |-> "ok",
     upstreams |-> NoUpstream, at |-> 0,
     cache_before |-> [k \in CacheKeys |-> NoEntry],
     breaker_before |-> CircuitState("Closed", 0, Null),
     cached_data |-> NoInfo, path |-> "none", upstream_calls |-> 0,
     result |-> NoInfo]
TickerIdle ==
    /\ redis_client = "unset"
    /\ cache = [k \in CacheKeys |-> NoEntry]
    /\ lookup = NoLookup
MultiIdle ==
    /\ multi_pc = "idle"
    /\ multi_request = <<>>
    /\ multi_tasks = <<>>
    /\ multi_result = <<>>
HelpersIdle ==
    ResolveIdle /\ ExtractIdle /\ TruncateIdle /\ BatchIdle /\ TickerIdle /\ MultiIdle

ReportInit ==
    /\ articles = <<>>
    /\ report = NoReport
    /\ made_by = "none"
    /\ ctor_args = NoArgs
    /\ EngineIdle
    /\ NewsIdle
    /\ ResilienceIdle
    /\ HelpersIdle

\* The caller grows the list of analyzed articles it will hand over.
AppendArticle ==
    /\ made_by = "none"
    /\ Len(articles) < MaxArticles
    /\ \E a \in ArticlePool : articles' = Append(articles, a)
    /\ UNCHANGED <<report, made_by, ctor_args>>
    /\ UNCHANGED engineVars
    /\ UNCHANGED <<newsVars, resilienceVars, helperVars>>

CreateFromArticles ==
    /\ made_by = "none"
    /\ \E pt \in ProcessingTimes :
          /\ report' = create_from_articles(articles, pt)
          /\ ctor_args' = Args(Len(articles), EmptyDict, None, "", pt)
    /\ made_by' = "create_from_articles"
    /\ UNCHANGED articles
    /\ UNCHANGED engineVars
    /\ UNCHANGED <<newsVars, resilienceVars, helperVars>>

Constructor ==
    /\ made_by = "none"
    /\ Len(articles) <= MaxCtorArticles
    /\ \E total \in TotalsFor(articles), dist \in DistributionPool,
          score \in ScorePool, signal \in SignalPool, pt \in ProcessingTimes :
          /\ report' = AnalysisReport(total, dist, score, signal, articles, pt)
          /\ ctor_args' = Args(total, dist, score, signal, pt)
    /\ made_by' = "constructor"
    /\ UNCHANGED articles
    /\ UNCHANGED engineVars
    /\ UNCHANGED <<newsVars, resilienceVars, helperVars>>

FromDict ==
    /\ made_by = "none"
    /\ Len(articles) <= MaxCtorArticles
    /\ \E total \in TotalsFor(articles), dist \in DistributionPool,
          score \in ScorePool, signal \in SignalPool, pt \in ProcessingTimes :
          /\ report' = from_dict([total_articles |-> total,
                                  sentiment_distribution |-> dist,
                                  net_sentiment_score |-> score,
                                  market_signal |-> signal,
                                  articles |-> articles,
                                  processing_time |-> pt])
          /\ ctor_args' = Args(total, dist, score, signal, pt)
    /\ made_by' = "from_dict"
    /\ UNCHANGED articles
    /\ UNCHANGED engineVars
    /\ UNCHANGED <<newsVars, resilienceVars, helperVars>>

ReportNext == AppendArticle \/ CreateFromArticles \/ Constructor \/ FromDict

SpecReport == ReportInit /\ [][ReportNext]_vars

(***************************************************************************)
(* backend/services/sentiment_engine.py                                    *)
(*                                                                         *)
(* A text argument is None, a str (its characters) or some other truthy    *)
(* object, on which str methods raise AttributeError.  The lexicon scorer, *)
(* the tokenizer and the classifier are external: each call either raises  *)
(* or returns a value of its contract.                                     *)
(***************************************************************************)
Chars == {"a", " "}

Str(chars) == [kind |-> "str", chars |-> chars]
NoneText == [kind |-> "none", chars |-> <<>>]
OtherObject == [kind |-> "other", chars |-> <<>>]

RECURSIVE SeqsUpTo(_)
SeqsUpTo(n) ==
    IF n = 0 THEN {<<>>}
    ELSE LET shorter == SeqsUpTo(n - 1)
         IN  shorter \cup {Append(q, c) : q \in shorter, c \in Chars}

Texts == {NoneText, OtherObject} \cup {Str(q) : q \in SeqsUpTo(MaxTextLen)}

\* str.strip(): leading and trailing whitespace removed.
RECURSIVE LStrip(_)
LStrip(q) == IF q # <<>> /\ Head(q) = " " THEN LStrip(Tail(q)) ELSE q

RECURSIVE RStrip(_)
RStrip(q) ==
    IF q # <<>> /\ q[Len(q)] = " " THEN RStrip(SubSeq(q, 1, Len(q) - 1)) ELSE q

Strip(q) == RStrip(LStrip(q))

\* What evaluating "not text or not text.strip()" does: "raise" for an object
\* without strip().
BlankTest(text) ==
    IF text.kind = "none" THEN "blank"
    ELSE IF text.kind = "other" THEN "raise"
    ELSE IF text.chars = <<>> THEN "blank"
    ELSE IF Strip(text.chars) = <<>> THEN "blank"
    ELSE "text"

Raises == [raises |-> TRUE]

\* vader.polarity_scores(text)['compound']: a score in [-1, 1] rounded to four
\* decimals, or an exception.
CompoundScores ==
    { R(-1, 1), R(-1, 2), R(-501, 10000), R(-1, 20), R(-499, 10000), Zero,
      R(499, 10000), R(1, 20), R(501, 10000), R(1, 2), R(1, 1) }
VaderOutcomes == {Raises} \cup {[raises |-> FALSE, compound |-> c] : c \in CompoundScores}

\* Mutant of HeadlineLabel: the thresholds are inclusive.
HeadlineLabelInclusive(compound_score) ==
    IF RLe(R(5, 100), compound_score) THEN "Positive"
    ELSE IF RLe(compound_score, R(-5, 100)) THEN "Negative"
    ELSE "Neutral"

\* The classification of the compound score in analyze_headline.
HeadlineLabel(compound_score) ==
    IF RGt(compound_score, R(5, 100)) THEN "Positive"
    ELSE IF RLt(compound_score, R(-5, 100)) THEN "Negative"
    ELSE "Neutral"

\* The try block of analyze_headline: the value returned, or an exception.
analyze_headline_try(text, vader) ==
    LET blank == BlankTest(text)
    IN  IF blank = "raise" THEN [exc |-> TRUE, path |-> "error"]
        ELSE IF blank = "blank"
        THEN [exc |-> FALSE, path |-> "blank", value |-> HeadlineSentiment(Zero, "Neutral")]
        ELSE IF vader.raises THEN [exc |-> TRUE, path |-> "error"]
        ELSE [exc |-> FALSE, path |-> "scored",
              value |-> HeadlineSentiment(vader.compound, HeadlineLabel(vader.compound))]

\* SentimentEngine.analyze_headline: the try block under its except clause.
analyze_headline(text, vader) ==
    LET body == analyze_headline_try(text, vader)
    IN  IF body.exc
        THEN [raised |-> FALSE, path |-> body.path,
              value |-> HeadlineSentiment(Zero, "Neutral")]
        ELSE [raised |-> FALSE, path |-> body.path, value |-> body.value]

\* torch.softmax over the three logits: three probabilities that sum to 1, up
\* to the rounding error of float32 arithmetic.
Tenths == {R(k, 10) : k \in 0..10}
RoundingErrors == {R(-1, 10000), Zero, R(1, 10000)}
SoftmaxOutputs ==
    { <<a, b, RAdd(c, e)>> : <<a, b, c, e>> \in
        { t \in Tenths \X Tenths \X Tenths \X RoundingErrors :
            /\ RAdd(RAdd(t[1], t[2]), t[3]) = One
            /\ RLe(Zero, RAdd(t[3], t[4])) } }

TokenizerOutcomes == {Raises, [raises |-> FALSE]}
ClassifierOutcomes ==
    {Raises} \cup {[raises |-> FALSE, probabilities |-> pr] : pr \in SoftmaxOutputs}

finbert_labels == <<"Negative", "Neutral", "Positive">>

\* Mutant of ArgMax: the index of the smallest entry.
ArgMin(probabilities) ==
    CHOOSE i \in 1..Len(probabilities) :
        /\ \A j \in 1..Len(probabilities) : RLe(probabilities[i], probabilities[j])
        /\ \A j \in 1..(i - 1) : RLt(probabilities[i], probabilities[j])

\* np.argmax: the first index of the largest entry.
ArgMax(probabilities) ==
    CHOOSE i \in 1..Len(probabilities) :
        /\ \A j \in 1..Len(probabilities) : RLe(probabilities[j], probabilities[i])
        /\ \A j \in 1..(i - 1) : RLt(probabilities[j], probabilities[i])

\* The neutral ContentSentiment analyze_content returns for blank text and
\* from its except clause.
NeutralFallback ==
    [confidence |-> R(33, 100), label |-> "Neutral",
     probabilities |-> ("Negative" :> R(33, 100) @@ "Neutral" :> R(34, 100)
                        @@ "Positive" :> R(33, 100))]

\* The try block of analyze_content: the value returned, or an exception.
\* _truncate_text is pure and total on a str; its result goes to the tokenizer
\* only, whose outcome is drawn from TokenizerOutcomes.
analyze_content_try(text, tokenizer, classifier) ==
    LET blank == BlankTest(text)
    IN  IF blank = "raise" THEN [exc |-> TRUE, path |-> "error"]
        ELSE IF blank = "blank"
        THEN [exc |-> FALSE, path |-> "blank", value |-> NeutralFallback]
        ELSE IF tokenizer.raises THEN [exc |-> TRUE, path |-> "error"]
        ELSE IF classifier.raises THEN [exc |-> TRUE, path |-> "error"]
        ELSE LET probabilities == classifier.probabilities
                 predicted_idx == ArgMax(probabilities)
                 predicted_label == finbert_labels[predicted_idx]
                 confidence == probabilities[predicted_idx]
                 prob_dict == [label \in {finbert_labels[i] : i \in 1..Len(probabilities)} |->
                                  probabilities[CHOOSE i \in 1..Len(probabilities) :
                                                    finbert_labels[i] = label]]
             IN  [exc |-> FALSE, path |-> "classified",
                  value |-> [confidence |-> confidence, label |-> predicted_label,
                             probabilities |-> prob_dict]]

\* Mutant of analyze_content: no except clause, an exception leaves the call.
analyze_content_uncaught(text, tokenizer, classifier) ==
    LET body == analyze_content_try(text, tokenizer, classifier)
    IN  IF body.exc
        THEN [raised |-> TRUE, path |-> body.path,
              value |-> ContentSentiment(Zero, "", Zero, Zero, Zero)]
        ELSE [raised |-> FALSE, path |-> body.path, value |-> body.value]

\* SentimentEngine.analyze_content: the try block under its except clause.
analyze_content(text, tokenizer, classifier) ==
    LET body == analyze_content_try(text, tokenizer, classifier)
    IN  IF body.exc
        THEN [raised |-> FALSE, path |-> body.path, value |-> NeutralFallback]
        ELSE [raised |-> FALSE, path |-> body.path, value |-> body.value]

ReportIdle ==
    /\ articles = <<>>
    /\ report = NoReport
    /\ made_by = "none"
    /\ ctor_args = NoArgs

EngineInit == ReportIdle /\ EngineIdle /\ NewsIdle /\ ResilienceIdle /\ HelpersIdle

\* The engine keeps no state between calls: one call is followed from an idle
\* engine.
AnalyzeHeadline ==
    /\ engine_op = "none"
    /\ \E text \in Texts, vader \in VaderOutcomes :
          LET out == analyze_headline(text, vader)
          IN  /\ engine_text' = text
              /\ engine_path' = out.path
              /\ engine_raised' = out.raised
              /\ headline_result' = out.value
    /\ engine_op' = "analyze_headline"
    /\ UNCHANGED content_result
    /\ UNCHANGED reportVars
    /\ UNCHANGED <<newsVars, resilienceVars, helperVars>>

AnalyzeContent ==
    /\ engine_op = "none"
    /\ \E text \in Texts, tokenizer \in TokenizerOutcomes,
          classifier \in ClassifierOutcomes :
          LET out == analyze_content(text, tokenizer, classifier)
          IN  /\ engine_text' = text
              /\ engine_path' = out.path
              /\ engine_raised' = out.raised
              /\ content_result' = out.value
    /\ engine_op' = "analyze_content"
    /\ UNCHANGED headline_result
    /\ UNCHANGED reportVars
    /\ UNCHANGED <<newsVars, resilienceVars, helperVars>>

EngineNext == AnalyzeHeadline \/ AnalyzeContent

SpecEngine == EngineInit /\ [][EngineNext]_vars

(***************************************************************************)
(* backend/models/article.py (Article) and                                 *)
(* backend/services/news_aggregator.py                                     *)
(*                                                                         *)
(* A string is its leading characters followed by `pad` further letters    *)
(* "x": a page text of 100 characters is one letter and a pad of 99.  A    *)
(* URL is its scheme, its host, a number standing for the rest of it, and  *)
(* the value of its "url" query parameter.                                 *)
(***************************************************************************)
articles_per_query == 2
max_workers == 2
min_content_length == 100
MaxQueries == 2
MaxFeedLen == 3

Text(chars, pad) == [chars |-> chars, pad |-> pad]
NoneStr == [chars |-> <<>>, pad |-> -1]
Empty == Text(<<>>, 0)

\* Python's truth value of an Optional[str].
Truthy(s) == s # NoneStr /\ (Len(s.chars) + s.pad) > 0

StrLen(s) == Len(s.chars) + s.pad

StrStrip(s) ==
    IF s.pad > 0 THEN Text(LStrip(s.chars), s.pad) ELSE Text(Strip(s.chars), 0)

ToLower(c) == IF c = "A" THEN "a" ELSE IF c = "B" THEN "b" ELSE c

StrLower(s) == Text([i \in 1..Len(s.chars) |-> ToLower(s.chars[i])], s.pad)

NoTarget == [scheme |-> "", netloc |-> "", path |-> 0]
Url(scheme, netloc, path, target) ==
    [scheme |-> scheme, netloc |-> netloc, path |-> path, target |-> target]
Publisher(n) == [scheme |-> "https", netloc |-> "pub.example", path |-> n]
AsUrl(t) == Url(t.scheme, t.netloc, t.path, NoTarget)
GoogleLink(n, target) == Url("https", "news.google.com", n, target)

Article(title, url, published, content, source_type) ==
    [title |-> title, url |-> url, published |-> published,
     content |-> content, source_type |-> source_type]

NoArticle == Article(NoneStr, AsUrl(NoTarget), "", NoneStr, "")

\* Mutant of ArticleValidate: the url is not looked at.
ArticleValidateNoUrlTest(a) ==
    /\ Truthy(a.title) /\ StrStrip(a.title) # Empty
    /\ Truthy(a.content) /\ StrStrip(a.content) # Empty
    /\ a.source_type \in {"Full Article", "Headline Only"}

ArticleValidate(a) ==
    /\ Truthy(a.title) /\ StrStrip(a.title) # Empty
    /\ a.url.scheme \in {"http", "https"}
    /\ Truthy(a.content) /\ StrStrip(a.content) # Empty
    /\ a.source_type \in {"Full Article", "Headline Only"}

\* session.head(url, allow_redirects=True): raises, or answers with the final
\* URL of the redirect chain.
HeadOutcomes ==
    {[raises |-> TRUE, url |-> AsUrl(NoTarget)],
     [raises |-> FALSE, url |-> AsUrl(Publisher(1))]}

\* A link urlparse raises ValueError for (an unclosed bracket in the host).
Malformed == Url("http", "[", 0, NoTarget)

ResolveStep(raises, value, head_requested) ==
    [raises |-> raises, value |-> value, head_requested |-> head_requested]

\* Mutant of _resolve_single_url_try: the url parameter is not looked at.
_resolve_single_url_try_head_only(url, head) ==
    IF url.netloc = "[" THEN ResolveStep(TRUE, url, FALSE)
    ELSE IF head.raises THEN ResolveStep(TRUE, url, TRUE)
    ELSE ResolveStep(FALSE, head.url, TRUE)

\* The try block of _resolve_single_url: it raises (in urlparse, or in the
\* HEAD request) or returns; head_requested records whether session.head was
\* called.
_resolve_single_url_try(url, head) ==
    IF url.netloc = "[" THEN ResolveStep(TRUE, url, FALSE)
    ELSE IF url.netloc = "news.google.com" /\ url.target # NoTarget
    THEN ResolveStep(FALSE, AsUrl(url.target), FALSE)
    ELSE IF head.raises THEN ResolveStep(TRUE, url, TRUE)
    ELSE ResolveStep(FALSE, head.url, TRUE)

\* _resolve_single_url with its except clause: the original url on a raise.
_resolve_single_url_run(url, head) ==
    LET t == _resolve_single_url_try(url, head)
    IN  IF t.raises THEN ResolveStep(FALSE, url, t.head_requested) ELSE t

_resolve_single_url(url, head) == _resolve_single_url_run(url, head).value

\* resolve_google_urls, heads[i] being what the HEAD request for urls[i] does;
\* its own except clause is never entered, _resolve_single_url raising nothing.
resolve_google_urls_run(urls, heads) ==
    [i \in 1..Len(urls) |-> _resolve_single_url_run(urls[i], heads[i])]

resolve_google_urls(urls, heads) ==
    LET runs == resolve_google_urls_run(urls, heads)
    IN  [i \in 1..Len(urls) |-> IF runs[i].raises THEN urls[i] ELSE runs[i].value]

\* What the page behind a URL does to the two extractors: trafilatura's
\* fetch_url (raises, None, a document) and extract (raises, None, a text),
\* and the fallback's GET and parse (raises, the joined paragraph text).
Short == Text(<<"a">>, min_content_length - 2)
AtMin == Text(<<"a">>, min_content_length - 1)
Padded == Text(<<" ", "a">>, min_content_length - 2)
Blank == Text(<<" ">>, 0)

NoExtract == [raises |-> FALSE, value |-> NoneStr]
NoFallback == [raises |-> TRUE, text |-> Empty]

ExtractOutcomes ==
    {[raises |-> TRUE, value |-> NoneStr]}
    \cup {[raises |-> FALSE, value |-> v] :
            v \in {NoneStr, Empty, Blank, Short, AtMin, Padded}}

FallbackOutcomes ==
    {NoFallback}
    \cup {[raises |-> FALSE, text |-> v] : v \in {Empty, Short, AtMin}}

\* A call that is not reached has its one placeholder outcome.
PageOutcomes ==
    {[fetch |-> "raise", extract |-> NoExtract, fallback |-> NoFallback]}
    \cup {[fetch |-> "none", extract |-> NoExtract, fallback |-> b] :
            b \in FallbackOutcomes}
    \cup {[fetch |-> "html", extract |-> e, fallback |-> NoFallback] :
            e \in {x \in ExtractOutcomes : x.raises \/ Truthy(x.value)}}
    \cup {[fetch |-> "html", extract |-> e, fallback |-> b] :
            e \in {x \in ExtractOutcomes : ~x.raises /\ ~Truthy(x.value)},
            b \in FallbackOutcomes}

_extract_content_fallback(page) ==
    IF page.fallback.raises THEN Empty ELSE StrStrip(page.fallback.text)

ExtractRun(value, fallback_attempted) ==
    [value |-> value, fallback_attempted |-> fallback_attempted]

\* extract_content: what it returns, and whether _extract_content_fallback was
\* called on the way.
extract_content_run(page) ==
    IF page.fetch = "raise" THEN ExtractRun(Empty, FALSE)
    ELSE IF page.fetch = "html" /\ page.extract.raises THEN ExtractRun(Empty, FALSE)
    ELSE IF page.fetch = "html" /\ Truthy(page.extract.value)
         THEN ExtractRun(StrStrip(page.extract.value), FALSE)
    ELSE ExtractRun(_extract_content_fallback(page), TRUE)

extract_content(page) == extract_content_run(page).value

\* An RSS entry; a title of NoneStr is an entry without the attribute, whose
\* read raises AttributeError.
Entry(title, link) == [title |-> title, link |-> link, published |-> ""]

\* What a worker task came to: the value returned, the path taken and, for a
\* returned article, the text extract_content gave (line 121).
NoResult == [value |-> NoArticle, extracted |-> NoneStr, path |-> "none"]

\* Mutant of _process_rss_entry: a text of exactly min_content_length is short.
_process_rss_entry_threshold_exclusive(entry, head, page) ==
    LET real_url == resolve_google_urls(<<entry.link>>, <<head>>)[1]
        extracted == extract_content(page)
        full == Truthy(extracted) /\ StrLen(extracted) > min_content_length
        content == IF full THEN extracted ELSE entry.title
        source_type == IF full THEN "Full Article" ELSE "Headline Only"
        article == Article(entry.title, real_url, entry.published, content,
                           source_type)
    IN  IF entry.title = NoneStr
        THEN [value |-> NoArticle, extracted |-> NoneStr, path |-> "except"]
        ELSE IF ArticleValidate(article)
        THEN [value |-> article, extracted |-> extracted, path |-> "returned"]
        ELSE [value |-> NoArticle, extracted |-> NoneStr, path |-> "invalid"]

_process_rss_entry(entry, head, page) ==
    LET real_url == resolve_google_urls(<<entry.link>>, <<head>>)[1]
        extracted == extract_content(page)
        full == Truthy(extracted) /\ StrLen(extracted) >= min_content_length
        content == IF full THEN extracted ELSE entry.title
        source_type == IF full THEN "Full Article" ELSE "Headline Only"
        article == Article(entry.title, real_url, entry.published, content,
                           source_type)
    IN  IF entry.title = NoneStr
        THEN [value |-> NoArticle, extracted |-> NoneStr, path |-> "except"]
        ELSE IF ArticleValidate(article)
        THEN [value |-> article, extracted |-> extracted, path |-> "returned"]
        ELSE [value |-> NoArticle, extracted |-> NoneStr, path |-> "invalid"]

\* What the feed source can hold: an article whose link carries the publisher
\* URL, one whose link must be followed, and one whose link carries a URL
\* that is not http(s).
EntryPool ==
    {Entry(Text(<<"A">>, 0), GoogleLink(1, Publisher(1))),
     Entry(Text(<<"a", " ">>, 0), GoogleLink(2, NoTarget)),
     Entry(Text(<<"B">>, 0),
           GoogleLink(3, [scheme |-> "ftp", netloc |-> "pub.example", path |-> 3]))}

RECURSIVE FeedsUpTo(_)
FeedsUpTo(n) ==
    IF n = 0 THEN {<<>>}
    ELSE LET shorter == FeedsUpTo(n - 1)
         IN  shorter \cup {Append(f, e) : f \in shorter, e \in EntryPool}

\* feedparser.parse(rss_url): raises, or returns a feed with its entries.
FeedOutcomes ==
    {[raises |-> TRUE, entries |-> <<>>]}
    \cup {[raises |-> FALSE, entries |-> f] : f \in FeedsUpTo(MaxFeedLen)}

Min(a, b) == IF a <= b THEN a ELSE b

\* entries[:n]
Slice(entries, n) == SubSeq(entries, 1, Min(n, Len(entries)))

\* Mutant of GatherLoop: a link already seen is gathered again.
RECURSIVE GatherLoopNoSeenTest(_, _, _, _)
GatherLoopNoSeenTest(entries, i, links, raw) ==
    IF i > Len(entries) THEN [unique_links |-> links, raw_entries |-> raw]
    ELSE GatherLoopNoSeenTest(entries, i + 1, links \cup {entries[i].link},
                              Append(raw, entries[i]))

\* The loop of lines 72-75 over one feed's entries.
RECURSIVE GatherLoop(_, _, _, _)
GatherLoop(entries, i, links, raw) ==
    IF i > Len(entries) THEN [unique_links |-> links, raw_entries |-> raw]
    ELSE IF entries[i].link \notin links
    THEN GatherLoop(entries, i + 1, links \cup {entries[i].link},
                    Append(raw, entries[i]))
    ELSE GatherLoop(entries, i + 1, links, raw)

Task(entry) == [entry |-> entry, status |-> "queued", result |-> NoResult]

Running == {i \in 1..Len(tasks) : tasks[i].status = "running"}

\* feed_log holds, per query handled, the number of entries taken from its
\* feed, or FeedRaised when the feed source raised.
FeedRaised == 0 - 1

\* start_analysis calls fetch_articles with the queries of the request.
StartAnalysis ==
    /\ analysis_pc = "idle"
    /\ fetch_pc = "idle"
    /\ analysis_pc' = "fetching"
    /\ fetch_pc' = "gather"
    /\ UNCHANGED <<next_query, feed_log, unique_links, raw_entries, tasks,
                   fetched_articles>>
    /\ UNCHANGED <<unique_articles, analyzed_articles, response>>
    /\ UNCHANGED <<dedupVars, reportVars, engineVars, resilienceVars, helperVars>>

\* One turn of the loop over the queries (lines 62-79).
GatherQuery ==
    /\ fetch_pc = "gather"
    /\ next_query <= MaxQueries
    /\ \E feed \in FeedOutcomes :
          IF feed.raises
          THEN /\ feed_log' = Append(feed_log, FeedRaised)
               /\ UNCHANGED <<unique_links, raw_entries>>
          ELSE LET taken == Slice(feed.entries, articles_per_query)
                   out == GatherLoop(taken, 1, unique_links, raw_entries)
               IN  /\ feed_log' = Append(feed_log, Len(taken))
                   /\ unique_links' = out.unique_links
                   /\ raw_entries' = out.raw_entries
    /\ next_query' = next_query + 1
    /\ UNCHANGED <<fetch_pc, tasks, fetched_articles>>
    /\ UNCHANGED <<analysisVars, dedupVars, reportVars, engineVars, resilienceVars, helperVars>>

\* executor.submit for every gathered entry (lines 85-90).
Submit ==
    /\ fetch_pc = "gather"
    /\ next_query > MaxQueries
    /\ tasks' = [i \in 1..Len(raw_entries) |-> Task(raw_entries[i])]
    /\ fetch_pc' = "process"
    /\ UNCHANGED <<next_query, feed_log, unique_links, raw_entries,
                   fetched_articles>>
    /\ UNCHANGED <<analysisVars, dedupVars, reportVars, engineVars, resilienceVars, helperVars>>

\* A free worker of the pool takes the oldest queued task.
StartTask(i) ==
    /\ fetch_pc = "process"
    /\ tasks[i].status = "queued"
    /\ \A j \in 1..(i - 1) : tasks[j].status # "queued"
    /\ Cardinality(Running) < max_workers
    /\ tasks' = [tasks EXCEPT ![i].status = "running"]
    /\ UNCHANGED <<fetch_pc, next_query, feed_log, unique_links, raw_entries,
                   fetched_articles>>
    /\ UNCHANGED <<analysisVars, dedupVars, reportVars, engineVars, resilienceVars, helperVars>>

\* The worker runs _process_rss_entry to its end.
FinishTask(i) ==
    /\ fetch_pc = "process"
    /\ tasks[i].status = "running"
    /\ \E head \in HeadOutcomes, page \in PageOutcomes :
          tasks' = [tasks EXCEPT
                      ![i].status = "finished",
                      ![i].result = _process_rss_entry(tasks[i].entry, head, page)]
    /\ UNCHANGED <<fetch_pc, next_query, feed_log, unique_links, raw_entries,
                   fetched_articles>>
    /\ UNCHANGED <<analysisVars, dedupVars, reportVars, engineVars, resilienceVars, helperVars>>

\* Mutant of Collect: a None result is appended too.
CollectKeepsNone(i) ==
    /\ fetch_pc = "process"
    /\ tasks[i].status = "finished"
    /\ tasks' = [tasks EXCEPT ![i].status = "collected"]
    /\ fetched_articles' = Append(fetched_articles, tasks[i].result.value)
    /\ UNCHANGED <<fetch_pc, next_query, feed_log, unique_links, raw_entries>>
    /\ UNCHANGED <<analysisVars, dedupVars, reportVars, engineVars, resilienceVars, helperVars>>

\* as_completed hands a finished future to the collecting loop (lines 93-97).
Collect(i) ==
    /\ fetch_pc = "process"
    /\ tasks[i].status = "finished"
    /\ tasks' = [tasks EXCEPT ![i].status = "collected"]
    /\ fetched_articles' =
          IF tasks[i].result.value # NoArticle
          THEN Append(fetched_articles, tasks[i].result.value)
          ELSE fetched_articles
    /\ UNCHANGED <<fetch_pc, next_query, feed_log, unique_links, raw_entries>>
    /\ UNCHANGED <<analysisVars, dedupVars, reportVars, engineVars, resilienceVars, helperVars>>

\* The executor is left with every task done; fetch_articles returns.
ReturnArticles ==
    /\ fetch_pc = "process"
    /\ \A i \in 1..Len(tasks) : tasks[i].status = "collected"
    /\ fetch_pc' = "done"
    /\ UNCHANGED <<next_query, feed_log, unique_links, raw_entries, tasks,
                   fetched_articles>>
    /\ UNCHANGED <<analysisVars, dedupVars, reportVars, engineVars, resilienceVars, helperVars>>

FetchNext ==
    \/ StartAnalysis
    \/ GatherQuery
    \/ Submit
    \/ \E i \in 1..Len(tasks) : StartTask(i)
    \/ \E i \in 1..Len(tasks) : FinishTask(i)
    \/ \E i \in 1..Len(tasks) : Collect(i)
    \/ ReturnArticles

NewsInit == ReportIdle /\ EngineIdle /\ NewsIdle /\ ResilienceIdle /\ HelpersIdle

\* Mutant of deduplicate_articles: the loop starts at the second article.
deduplicate_articles_skips_first(arts) ==
    LET RECURSIVE Loop(_, _, _, _)
        Loop(i, seen_urls, seen_titles, unique) ==
            IF i > Len(arts) THEN unique
            ELSE LET title_normalized == StrStrip(StrLower(arts[i].title))
                 IN  IF arts[i].url \in seen_urls
                     THEN Loop(i + 1, seen_urls, seen_titles, unique)
                     ELSE IF title_normalized \in seen_titles
                     THEN Loop(i + 1, seen_urls, seen_titles, unique)
                     ELSE Loop(i + 1, seen_urls \cup {arts[i].url},
                               seen_titles \cup {title_normalized},
                               Append(unique, arts[i]))
    IN  Loop(2, {}, {}, <<>>)

\* Mutant of DedupLoop: the title is not compared.
RECURSIVE DedupLoopUrlOnly(_, _, _, _, _)
DedupLoopUrlOnly(arts, i, seen_urls, seen_titles, unique) ==
    IF i > Len(arts) THEN unique
    ELSE LET title_normalized == StrStrip(StrLower(arts[i].title))
         IN  IF arts[i].url \in seen_urls
             THEN DedupLoopUrlOnly(arts, i + 1, seen_urls, seen_titles, unique)
             ELSE DedupLoopUrlOnly(arts, i + 1, seen_urls \cup {arts[i].url},
                                   seen_titles \cup {title_normalized},
                                   Append(unique, arts[i]))

\* The loop of deduplicate_articles (lines 270-283).
RECURSIVE DedupLoop(_, _, _, _, _)
DedupLoop(arts, i, seen_urls, seen_titles, unique) ==
    IF i > Len(arts) THEN unique
    ELSE LET title_normalized == StrStrip(StrLower(arts[i].title))
         IN  IF arts[i].url \in seen_urls
             THEN DedupLoop(arts, i + 1, seen_urls, seen_titles, unique)
             ELSE IF title_normalized \in seen_titles
             THEN DedupLoop(arts, i + 1, seen_urls, seen_titles, unique)
             ELSE DedupLoop(arts, i + 1, seen_urls \cup {arts[i].url},
                            seen_titles \cup {title_normalized},
                            Append(unique, arts[i]))

deduplicate_articles(arts) == DedupLoop(arts, 1, {}, {}, <<>>)

MaxDedupLen == 3

\* Articles with two urls and with titles that differ in case and in
\* surrounding blanks only, or in their letters.
DedupPool ==
    {Article(Text(t, 0), AsUrl(Publisher(n)), "", Text(<<"a">>, 0), "Headline Only") :
        t \in {<<"A">>, <<"a", " ">>, <<"B">>}, n \in {1, 2}}

\* A caller grows the list it will hand to deduplicate_articles.
DedupAdd ==
    /\ dedup_done = FALSE
    /\ Len(dedup_input) < MaxDedupLen
    /\ \E a \in DedupPool : dedup_input' = Append(dedup_input, a)
    /\ UNCHANGED <<dedup_done, dedup_output, dedup_again>>
    /\ UNCHANGED <<fetchVars, analysisVars, reportVars, engineVars, resilienceVars, helperVars>>

\* deduplicate_articles is called on the list, and once more on what it
\* returned.
Deduplicate ==
    /\ dedup_done = FALSE
    /\ dedup_done' = TRUE
    /\ dedup_output' = deduplicate_articles(dedup_input)
    /\ dedup_again' = deduplicate_articles(deduplicate_articles(dedup_input))
    /\ UNCHANGED dedup_input
    /\ UNCHANGED <<fetchVars, analysisVars, reportVars, engineVars, resilienceVars, helperVars>>

DedupNext == DedupAdd \/ Deduplicate

SpecDedup == NewsInit /\ [][DedupNext]_vars

(***************************************************************************)
(* backend/app.py: start_analysis, with SentimentEngine.analyze_article    *)
(* and analyze_articles_batch of backend/services/sentiment_engine.py.     *)
(***************************************************************************)
\* The text of a title or content as the engine's operators take it: its
\* leading characters, and one letter for a pad.
EngineText(s) ==
    IF s = NoneStr THEN NoneText
    ELSE Str(IF s.pad > 0 THEN Append(s.chars, "a") ELSE s.chars)

\* What the two models do for one article of a batch.
BatchVaderOutcomes == {Raises, [raises |-> FALSE, compound |-> R(1, 2)]}
BatchClassifierOutcomes ==
    {Raises,
     [raises |-> FALSE, probabilities |-> <<R(1, 10), Zero, R(9, 10)>>],
     [raises |-> FALSE, probabilities |-> <<R(1, 2), R(3, 10), R(2, 10)>>]}

\* SentimentEngine.analyze_article; both calls catch their own exceptions, so
\* its except clause is not reached.
analyze_article_parts(article, vader, classifier) ==
    LET headline_sentiment == analyze_headline(EngineText(article.title), vader).value
        content_sentiment ==
            analyze_content(EngineText(article.content), [raises |-> FALSE],
                            classifier).value
    IN  [article |-> article, headline_sentiment |-> headline_sentiment,
         content_sentiment |-> content_sentiment]

\* The AnalyzedArticle as the report reads it: the verdict of its article's and
\* headline's validate(), and its content sentiment.
analyze_article(article, vader, classifier) ==
    LET parts == analyze_article_parts(article, vader, classifier)
    IN  AnalyzedArticle(ArticleValidate(parts.article)
                          /\ HeadlineSentimentValidate(parts.headline_sentiment),
                        parts.content_sentiment)

\* Mutant of BatchLoop: an article whose classifier call fails is skipped.
RECURSIVE BatchLoopSkipsFailed(_, _, _, _, _)
BatchLoopSkipsFailed(arts, i, vaders, classifiers, analyzed_list) ==
    IF i > Len(arts) THEN analyzed_list
    ELSE BatchLoopSkipsFailed(arts, i + 1, vaders, classifiers,
             IF classifiers[i].raises THEN analyzed_list
             ELSE Append(analyzed_list,
                         analyze_article_parts(arts[i], vaders[i], classifiers[i])))

\* The loop of analyze_articles_batch from article i on; analyze_article
\* raises nothing, so the loop's except clause (continue) is not reached.
RECURSIVE BatchLoop(_, _, _, _, _)
BatchLoop(arts, i, vaders, classifiers, analyzed_list) ==
    IF i > Len(arts) THEN analyzed_list
    ELSE BatchLoop(arts, i + 1, vaders, classifiers,
             Append(analyzed_list,
                    analyze_article_parts(arts[i], vaders[i], classifiers[i])))

\* SentimentEngine.analyze_articles_batch, vaders[i] and classifiers[i] being
\* what the two models do for articles[i].
analyze_articles_batch(arts, vaders, classifiers) ==
    BatchLoop(arts, 1, vaders, classifiers, <<>>)

NotFound ==
    [status |-> 404, error |-> "No articles found for the given query",
     completed |-> FALSE]
ValidationFailed ==
    [status |-> 500, error |-> "Analysis report validation failed",
     completed |-> FALSE]
Completed == [status |-> 200, error |-> "", completed |-> TRUE]

\* fetch_articles returned nothing: start_analysis answers 404 (lines 77-83).
NoArticlesFound ==
    /\ analysis_pc = "fetching"
    /\ fetch_pc = "done"
    /\ fetched_articles = <<>>
    /\ response' = NotFound
    /\ analysis_pc' = "answered"
    /\ UNCHANGED <<unique_articles, analyzed_articles>>
    /\ UNCHANGED <<fetchVars, dedupVars, reportVars, engineVars, resilienceVars, helperVars>>

\* Mutant of DeduplicateFetched: the test for an empty list is missing.
DeduplicateFetchedUnguarded ==
    /\ analysis_pc = "fetching"
    /\ fetch_pc = "done"
    /\ unique_articles' = deduplicate_articles(fetched_articles)
    /\ analysis_pc' = "analyzing"
    /\ UNCHANGED <<analyzed_articles, response>>
    /\ UNCHANGED <<fetchVars, dedupVars, reportVars, engineVars, resilienceVars, helperVars>>

\* Otherwise the articles are de-duplicated (line 86).
DeduplicateFetched ==
    /\ analysis_pc = "fetching"
    /\ fetch_pc = "done"
    /\ fetched_articles # <<>>
    /\ unique_articles' = deduplicate_articles(fetched_articles)
    /\ analysis_pc' = "analyzing"
    /\ UNCHANGED <<analyzed_articles, response>>
    /\ UNCHANGED <<fetchVars, dedupVars, reportVars, engineVars, resilienceVars, helperVars>>

\* One turn of the loop of analyze_articles_batch.
AnalyzeNextArticle ==
    /\ analysis_pc = "analyzing"
    /\ Len(analyzed_articles) < Len(unique_articles)
    /\ \E vader \in BatchVaderOutcomes, classifier \in BatchClassifierOutcomes :
          analyzed_articles' =
              Append(analyzed_articles,
                     analyze_article(unique_articles[Len(analyzed_articles) + 1],
                                     vader, classifier))
    /\ UNCHANGED <<analysis_pc, unique_articles, response>>
    /\ UNCHANGED <<fetchVars, dedupVars, reportVars, engineVars, resilienceVars, helperVars>>

\* The report is built and validated, and start_analysis answers (lines
\* 93-126).
Respond ==
    /\ analysis_pc = "analyzing"
    /\ Len(analyzed_articles) = Len(unique_articles)
    /\ \E processing_time \in ProcessingTimes :
          LET built == create_from_articles(analyzed_articles, processing_time)
          IN  /\ report' = built
              /\ response' = IF ~validate(built) THEN ValidationFailed
                             ELSE Completed
    /\ analysis_pc' = "answered"
    /\ UNCHANGED <<unique_articles, analyzed_articles>>
    /\ UNCHANGED <<articles, made_by, ctor_args>>
    /\ UNCHANGED <<fetchVars, dedupVars, engineVars, resilienceVars, helperVars>>

NewsNext ==
    \/ FetchNext
    \/ NoArticlesFound
    \/ DeduplicateFetched
    \/ AnalyzeNextArticle
    \/ Respond

SpecNews == NewsInit /\ [][NewsNext]_vars


(***************************************************************************)
(* backend/utils/error_handling.py: with_retry and with_circuit_breaker as *)
(* backend/services/financial_data_service.py applies them to              *)
(* _fetch_ticker_data.  The module is not among the sources; the policies  *)
(* follow section 4.4 of the specification, with the configuration of      *)
(* financial_data_service.py:67-68.  The breaker wraps the retry, which    *)
(* wraps the call; each worker's admission by the breaker and the report   *)
(* of its outcome to the breaker are single steps under the breaker's      *)
(* mutual exclusion, the invocations and the waits between them are not.   *)
(* The wrapped call is taken as the policies see it: it returns, or fails  *)
(* with a transient or a permanent kind of failure.                        *)
(***************************************************************************)
failure_threshold == 3
recovery_timeout == 300
max_retries == 2
base_delay == 1
max_delay == 10

ClockStep == 100
MaxNow == 700
MaxAttemptCount == 6

CallOutcomes == {"success", "transient", "permanent"}

\* The wait before retry number attempt + 1.
RetryDelay(attempt) == Min(base_delay * (2 ^ attempt), max_delay)

\* Mutant of ShouldRetry: a permanent failure is retried too.
ShouldRetryAnyFailure(outcome, attempt) ==
    outcome # "success" /\ attempt < max_retries

\* Whether the retry policy invokes the call again after this outcome.
ShouldRetry(outcome, attempt) ==
    outcome = "transient" /\ attempt < max_retries

\* Mutant of BeforeCall: a half-open breaker admits every call as a trial.
BeforeCallAdmitsInHalfOpen(b, t) ==
    IF b.state = "Closed" THEN [admit |-> "pass", breaker |-> b]
    ELSE IF b.state = "Open" /\ t - b.opened_at < recovery_timeout
    THEN [admit |-> "reject", breaker |-> b]
    ELSE [admit |-> "trial",
          breaker |-> CircuitState("HalfOpen", b.consecutive_failures, b.opened_at)]

\* Mutant of BeforeCall: an open breaker admits a trial at once.
BeforeCallIgnoresRecoveryTimeout(b, t) ==
    IF b.state = "Closed" THEN [admit |-> "pass", breaker |-> b]
    ELSE IF b.state = "Open"
    THEN [admit |-> "trial",
          breaker |-> CircuitState("HalfOpen", b.consecutive_failures, b.opened_at)]
    ELSE [admit |-> "reject", breaker |-> b]

\* The breaker's check before a call at time t: the call passes, is the one
\* trial of a half-open breaker, or is rejected with CircuitOpen.
BeforeCall(b, t) ==
    IF b.state = "Closed" THEN [admit |-> "pass", breaker |-> b]
    ELSE IF b.state = "Open" /\ t - b.opened_at >= recovery_timeout
    THEN [admit |-> "trial",
          breaker |-> CircuitState("HalfOpen", b.consecutive_failures, b.opened_at)]
    ELSE [admit |-> "reject", breaker |-> b]

\* The breaker after a call that passed or was the trial has succeeded.
OnSuccess(b, trial) ==
    IF trial THEN CircuitState("Closed", 0, Null)
    ELSE IF b.state = "Closed" THEN CircuitState("Closed", 0, Null)
    ELSE b

\* The breaker after such a call has failed at time t.
OnFailure(b, trial, t) ==
    IF trial THEN CircuitState("Open", b.consecutive_failures, t)
    ELSE IF b.state = "Closed"
    THEN IF b.consecutive_failures + 1 >= failure_threshold
         THEN CircuitState("Open", b.consecutive_failures + 1, t)
         ELSE CircuitState("Closed", b.consecutive_failures + 1, Null)
    ELSE b

\* A worker calls the protected operation: the breaker admits or rejects it.
Call(w) ==
    /\ callers[w].pc = "idle"
    /\ LET check == BeforeCall(breaker, now)
       IN  /\ breaker' = check.breaker
           /\ callers' = [callers EXCEPT ![w] =
                 IF check.admit = "reject"
                 THEN [IdleCaller EXCEPT !.seen = breaker.state,
                                         !.result = "CircuitOpen"]
                 ELSE [IdleCaller EXCEPT !.seen = breaker.state,
                                         !.pc = "calling",
                                         !.trial = (check.admit = "trial")]]
    /\ UNCHANGED now
    /\ UNCHANGED <<reportVars, engineVars, newsVars, helperVars>>

\* The retry policy invokes the wrapped call and looks at what it did.
Invoke(w) ==
    /\ callers[w].pc = "calling"
    /\ \E outcome \in CallOutcomes :
          callers' = [callers EXCEPT ![w] =
              [@ EXCEPT !.invocations = @ + 1,
                        !.outcome = outcome,
                        !.pc = IF outcome = "success" THEN "succeeded"
                               ELSE IF ShouldRetry(outcome, callers[w].attempt)
                               THEN "backoff"
                               ELSE "failed",
                        !.delay = IF ShouldRetry(outcome, callers[w].attempt)
                                  THEN RetryDelay(callers[w].attempt)
                                  ELSE callers[w].delay]]
    /\ UNCHANGED <<breaker, now>>
    /\ UNCHANGED <<reportVars, engineVars, newsVars, helperVars>>

\* The wait is over: the next attempt.
Retry(w) ==
    /\ callers[w].pc = "backoff"
    /\ callers' = [callers EXCEPT ![w] =
          [@ EXCEPT !.pc = "calling", !.attempt = @ + 1]]
    /\ UNCHANGED <<breaker, now>>
    /\ UNCHANGED <<reportVars, engineVars, newsVars, helperVars>>

\* The outcome of the retried call reaches the breaker and the caller.
Report(w) ==
    /\ callers[w].pc \in {"succeeded", "failed"}
    /\ breaker' = IF callers[w].pc = "succeeded"
                  THEN OnSuccess(breaker, callers[w].trial)
                  ELSE OnFailure(breaker, callers[w].trial, now)
    /\ callers' = [callers EXCEPT ![w] =
          [@ EXCEPT !.pc = "idle",
                    !.result = IF callers[w].pc = "succeeded" THEN "ok"
                               ELSE "failed"]]
    /\ UNCHANGED now
    /\ UNCHANGED <<reportVars, engineVars, newsVars, helperVars>>

\* Time passes.
Tick ==
    /\ now + ClockStep <= MaxNow
    /\ now' = now + ClockStep
    /\ UNCHANGED <<breaker, callers>>
    /\ UNCHANGED <<reportVars, engineVars, newsVars, helperVars>>

ResilienceNext ==
    \/ \E w \in Workers : Call(w)
    \/ \E w \in Workers : Invoke(w)
    \/ \E w \in Workers : Retry(w)
    \/ \E w \in Workers : Report(w)
    \/ Tick

SpecResilience == NewsInit /\ [][ResilienceNext]_vars

(***************************************************************************)
(* backend/services/news_aggregator.py: resolve_google_urls called on a    *)
(* list of links.                                                          *)
(***************************************************************************)
MaxResolveLen == 2

ResolvePool ==
    {GoogleLink(1, Publisher(1)), GoogleLink(2, NoTarget), AsUrl(Publisher(2)),
     Url("https", "pub.example", 3, Publisher(1)), Malformed}

RECURSIVE UrlListsUpTo(_)
UrlListsUpTo(n) ==
    IF n = 0 THEN {<<>>}
    ELSE LET shorter == UrlListsUpTo(n - 1)
         IN  shorter \cup {Append(q, u) : q \in shorter, u \in ResolvePool}

ResolveGoogleUrls ==
    /\ ~resolve_call.done
    /\ \E urls \in UrlListsUpTo(MaxResolveLen) :
          \E heads \in [1..Len(urls) -> HeadOutcomes] :
              resolve_call' = [done |-> TRUE, urls |-> urls, heads |-> heads,
                               runs |-> resolve_google_urls_run(urls, heads),
                               value |-> resolve_google_urls(urls, heads)]
    /\ UNCHANGED <<extract_calls, truncate_call, batch_call, tickerVars, multiVars>>
    /\ UNCHANGED <<reportVars, engineVars, newsVars, resilienceVars>>

ResolveNext == ResolveGoogleUrls

SpecResolve == NewsInit /\ [][ResolveNext]_vars

(***************************************************************************)
(* backend/services/news_aggregator.py: extract_content called on a page.  *)
(***************************************************************************)
MaxExtractCalls == 2

ExtractContent ==
    /\ Len(extract_calls) < MaxExtractCalls
    /\ \E page \in PageOutcomes :
          extract_calls' = Append(extract_calls,
                                  [page |-> page, run |-> extract_content_run(page)])
    /\ UNCHANGED <<resolve_call, truncate_call, batch_call, tickerVars, multiVars>>
    /\ UNCHANGED <<reportVars, engineVars, newsVars, resilienceVars>>

ExtractNext == ExtractContent

SpecExtract == NewsInit /\ [][ExtractNext]_vars

(***************************************************************************)
(* backend/services/sentiment_engine.py: _truncate_text.  A text is the    *)
(* sequence of its characters; max_text_length (512 characters by default) *)
(* is scaled down with the texts.                                          *)
(***************************************************************************)
max_text_length == 4
MaxTruncLen == 6

TruncChars == {"a", ".", " "}

RECURSIVE TruncTextsUpTo(_)
TruncTextsUpTo(n) ==
    IF n = 0 THEN {<<>>}
    ELSE LET shorter == TruncTextsUpTo(n - 1)
         IN  shorter \cup {Append(q, c) : q \in shorter, c \in TruncChars}

\* text.split('. '): the pieces between the occurrences of '. ', cur being the
\* piece collected so far.
RECURSIVE SplitSentences(_, _)
SplitSentences(rest, cur) ==
    IF rest = <<>> THEN <<cur>>
    ELSE IF Len(rest) >= 2 /\ rest[1] = "." /\ rest[2] = " "
    THEN <<cur>> \o SplitSentences(SubSeq(rest, 3, Len(rest)), <<>>)
    ELSE SplitSentences(Tail(rest), Append(cur, rest[1]))

\* text.split(): the runs of non-whitespace characters.
RECURSIVE SplitWords(_, _)
SplitWords(rest, cur) ==
    IF rest = <<>> THEN IF cur = <<>> THEN <<>> ELSE <<cur>>
    ELSE IF rest[1] = " "
    THEN (IF cur = <<>> THEN <<>> ELSE <<cur>>) \o SplitWords(Tail(rest), <<>>)
    ELSE SplitWords(Tail(rest), Append(cur, rest[1]))

\* The two for loops of _truncate_text: pieces are appended, each followed by
\* sep, until one does not fit.
RECURSIVE TruncateLoop(_, _, _, _)
TruncateLoop(parts, i, sep, truncated) ==
    IF i > Len(parts) THEN truncated
    ELSE IF Len(truncated \o parts[i] \o sep) <= max_text_length
    THEN TruncateLoop(parts, i + 1, sep, truncated \o parts[i] \o sep)
    ELSE truncated

_truncate_text(text) ==
    IF Len(text) <= max_text_length THEN text
    ELSE LET sentences == SplitSentences(text, <<>>)
             by_sentence == TruncateLoop(sentences, 1, <<".", " ">>, <<>>)
             words == SplitWords(text, <<>>)
             by_word == IF by_sentence = <<>>
                        THEN TruncateLoop(words, 1, <<" ">>, <<>>)
                        ELSE by_sentence
             truncated == IF by_word = <<>>
                          THEN SubSeq(text, 1, max_text_length)
                          ELSE by_word
         IN  Strip(truncated)

TruncateText ==
    /\ ~truncate_call.done
    /\ \E text \in TruncTextsUpTo(MaxTruncLen) :
          truncate_call' = [done |-> TRUE, text |-> text, value |-> _truncate_text(text)]
    /\ UNCHANGED <<resolve_call, extract_calls, batch_call, tickerVars, multiVars>>
    /\ UNCHANGED <<reportVars, engineVars, newsVars, resilienceVars>>

TruncateNext == TruncateText

SpecTruncate == NewsInit /\ [][TruncateNext]_vars

(***************************************************************************)
(* backend/services/sentiment_engine.py: analyze_articles_batch called on  *)
(* a list of articles.                                                     *)
(***************************************************************************)
MaxBatchLen == 2

BatchArticlePool ==
    {Article(Text(<<"A">>, 0), AsUrl(Publisher(1)), "", AtMin, "Full Article"),
     Article(Text(<<"B">>, 0), AsUrl(Publisher(2)), "", Text(<<"B">>, 0), "Headline Only"),
     Article(Text(<<"a", " ">>, 0), AsUrl(Publisher(1)), "", Blank, "Full Article")}

RECURSIVE ArticleListsUpTo(_)
ArticleListsUpTo(n) ==
    IF n = 0 THEN {<<>>}
    ELSE LET shorter == ArticleListsUpTo(n - 1)
         IN  shorter \cup {Append(q, a) : q \in shorter, a \in BatchArticlePool}

AnalyzeArticlesBatch ==
    /\ ~batch_call.done
    /\ \E arts \in ArticleListsUpTo(MaxBatchLen) :
          \E vaders \in [1..Len(arts) -> BatchVaderOutcomes],
             classifiers \in [1..Len(arts) -> BatchClassifierOutcomes] :
              batch_call' = [done |-> TRUE, articles |-> arts, vaders |-> vaders,
                             classifiers |-> classifiers,
                             value |-> analyze_articles_batch(arts, vaders, classifiers)]
    /\ UNCHANGED <<resolve_call, extract_calls, truncate_call, tickerVars, multiVars>>
    /\ UNCHANGED <<reportVars, engineVars, newsVars, resilienceVars>>

BatchNext == AnalyzeArticlesBatch

SpecBatch == NewsInit /\ [][BatchNext]_vars

(***************************************************************************)
(* backend/services/financial_data_service.py: get_ticker_info with its    *)
(* cache and with _fetch_ticker_data under the retry and circuit-breaker   *)
(* policies of section 4.4 (utils/error_handling.py).  One call is one     *)
(* step; the breaker and the clock are those of the protected operation.   *)
(***************************************************************************)
cache_ttl == 300
MaxLookups == 2
MaxTickerNow == 300

\* FinancialDataService.validate_ticker
validate_ticker(ticker) ==
    IF ticker.length = 0 THEN FALSE
    ELSE IF ~ticker.alnum \/ ticker.length < 1 \/ ticker.length > 5 THEN FALSE
    ELSE TRUE

\* redis get: the value of an entry that has not expired.
RedisGet(c, key, t) ==
    IF c[key] # NoEntry /\ t < c[key].expires_at THEN c[key].value ELSE NoInfo

RedisOutcomes == {"ok", "raises"}

\* Mutant of _get_from_cache: a raising get is not noticed.
_get_from_cache_unguarded(client, c, key, t, get) ==
    IF client = "none" THEN NoInfo ELSE RedisGet(c, key, t)

\* FinancialDataService._get_from_cache; get is what redis_client.get does.
_get_from_cache(client, c, key, t, get) ==
    IF client = "none" THEN NoInfo
    ELSE IF get = "raises" THEN NoInfo
    ELSE RedisGet(c, key, t)

\* FinancialDataService._set_cache; set is what redis_client.setex does.
_set_cache(client, c, key, data, t, set) ==
    IF client = "none" THEN c
    ELSE IF set = "raises" THEN c
    ELSE [c EXCEPT ![key] = CacheEntry(data, t + cache_ttl)]

\* What yf.Ticker(ticker).info does: two answers with a symbol, an answer
\* without one, a network or timeout exception, or no answer within the
\* deadline.
UpstreamOutcomes ==
    {"info1", "info2", "empty", "network_error", "timeout_error", "hang"}

\* What it does at the first call and at each further one.
UpstreamRuns ==
    {<<o, o, o>> : o \in UpstreamOutcomes \ {"timeout_error"}}
    \cup {<<"timeout_error", "info2", "info2">>}

Price(info) == IF info = "info1" THEN 1 ELSE 2

\* The try block of _fetch_ticker_data.
_fetch_ticker_data_try(upstream) ==
    IF upstream \in {"network_error", "timeout_error"}
    THEN [raises |-> TRUE, value |-> "none"]
    ELSE IF upstream = "empty" THEN [raises |-> FALSE, value |-> "none"]
    ELSE [raises |-> FALSE, value |-> upstream]

\* The function body: its except clause logs the exception and returns None.
_fetch_ticker_data_body(upstream) ==
    LET body == _fetch_ticker_data_try(upstream)
    IN  IF body.raises THEN [raises |-> FALSE, value |-> "none"] ELSE body

\* What the policies see of a call of the body: a raise is a transient
\* failure, a return is a success.
PolicyOutcome(body) == IF body.raises THEN "transient" ELSE "success"

\* The retry policy around the body.
RECURSIVE RetryLoop(_, _)
RetryLoop(upstreams, attempt) ==
    LET body == _fetch_ticker_data_body(upstreams[attempt + 1])
        outcome == PolicyOutcome(body)
    IN  IF ShouldRetry(outcome, attempt) THEN RetryLoop(upstreams, attempt + 1)
        ELSE [outcome |-> outcome, value |-> body.value, invocations |-> attempt + 1]

FetchReturn(raises, value, b, invocations) ==
    [raises |-> raises, value |-> value, breaker |-> b, invocations |-> invocations]

\* _fetch_ticker_data as decorated: the breaker's check, the retried body and
\* the breaker's update; an upstream that does not answer is ended by the
\* deadline (with_timeout, and asyncio.wait_for in get_ticker_info), which
\* reports nothing to the breaker.
_fetch_ticker_data(b, t, upstreams) ==
    LET check == BeforeCall(b, t)
        trial == check.admit = "trial"
        run == RetryLoop(upstreams, 0)
    IN  IF check.admit = "reject" THEN FetchReturn("CircuitOpen", "none", check.breaker, 0)
        ELSE IF upstreams[1] = "hang" THEN FetchReturn("Timeout", "none", check.breaker, 1)
        ELSE IF run.outcome = "success"
        THEN FetchReturn("", run.value, OnSuccess(check.breaker, trial), run.invocations)
        ELSE FetchReturn("Failed", "none", OnFailure(check.breaker, trial, t), run.invocations)

LookupOutcome(result, c, b, upstream_calls, cached_data, path) ==
    [result |-> result, cache |-> c, breaker |-> b, upstream_calls |-> upstream_calls,
     cached_data |-> cached_data, path |-> path]

\* Mutant of get_ticker_info: a lookup without data is cached too.
get_ticker_info_caches_none(ticker, client, c, b, t, get, set, upstreams) ==
    IF ~validate_ticker(ticker) THEN LookupOutcome(NoInfo, c, b, 0, NoInfo, "invalid")
    ELSE LET cache_key == ticker.symbol
             cached_data == _get_from_cache(client, c, cache_key, t, get)
             fetched == _fetch_ticker_data(b, t, upstreams)
         IN  IF cached_data # NoInfo
             THEN LookupOutcome(cached_data, c, b, 0, cached_data, "cached")
             ELSE IF fetched.raises # ""
             THEN LookupOutcome(NoInfo, c, fetched.breaker, fetched.invocations,
                                cached_data, fetched.raises)
             ELSE IF fetched.value = "none"
             THEN LookupOutcome(NoInfo, _set_cache(client, c, cache_key, NoInfo, t, set),
                                fetched.breaker, fetched.invocations, cached_data, "no_data")
             ELSE LET ticker_info == TickerInfo(ticker.symbol, Price(fetched.value))
                  IN  LookupOutcome(ticker_info,
                                    _set_cache(client, c, cache_key, ticker_info, t, set),
                                    fetched.breaker, fetched.invocations, cached_data,
                                    "fetched")

\* FinancialDataService.get_ticker_info at time t: what it returns, the cache
\* and the breaker it leaves, how often the upstream was called, what
\* _get_from_cache gave and the return statement reached.
get_ticker_info(ticker, client, c, b, t, get, set, upstreams) ==
    IF ~validate_ticker(ticker) THEN LookupOutcome(NoInfo, c, b, 0, NoInfo, "invalid")
    ELSE LET cache_key == ticker.symbol
             cached_data == _get_from_cache(client, c, cache_key, t, get)
             fetched == _fetch_ticker_data(b, t, upstreams)
         IN  IF cached_data # NoInfo
             THEN LookupOutcome(cached_data, c, b, 0, cached_data, "cached")
             ELSE IF fetched.raises # ""
             THEN LookupOutcome(NoInfo, c, fetched.breaker, fetched.invocations,
                                cached_data, fetched.raises)
             ELSE IF fetched.value = "none"
             THEN LookupOutcome(NoInfo, c, fetched.breaker, fetched.invocations,
                                cached_data, "no_data")
             ELSE LET ticker_info == TickerInfo(ticker.symbol, Price(fetched.value))
                  IN  LookupOutcome(ticker_info,
                                    _set_cache(client, c, cache_key, ticker_info, t, set),
                                    fetched.breaker, fetched.invocations, cached_data,
                                    "fetched")

\* FinancialDataService.__init__
NewService ==
    /\ redis_client = "unset"
    /\ redis_client' \in {"none", "redis"}
    /\ UNCHANGED <<cache, lookup>>
    /\ UNCHANGED <<resolve_call, extract_calls, truncate_call, batch_call, multiVars>>
    /\ UNCHANGED <<reportVars, engineVars, newsVars, resilienceVars>>

GetTickerInfo ==
    /\ redis_client # "unset"
    /\ lookup.n < MaxLookups
    /\ \E ticker \in TickerPool, get \in RedisOutcomes, set \in RedisOutcomes,
          upstreams \in UpstreamRuns :
          LET out == get_ticker_info(ticker, redis_client, cache, breaker, now,
                                     get, set, upstreams)
          IN  /\ redis_client = "none" => (get = "ok" /\ set = "ok")
              /\ cache' = out.cache
              /\ breaker' = out.breaker
              /\ lookup' = [n |-> lookup.n + 1, ticker |-> ticker, get |-> get,
                            set |-> set, upstreams |-> upstreams, at |-> now,
                            cache_before |-> cache, breaker_before |-> breaker,
                            cached_data |-> out.cached_data, path |-> out.path,
                            upstream_calls |-> out.upstream_calls,
                            result |-> out.result]
    /\ UNCHANGED <<redis_client, now, callers>>
    /\ UNCHANGED <<resolve_call, extract_calls, truncate_call, batch_call, multiVars>>
    /\ UNCHANGED <<reportVars, engineVars, newsVars>>

\* Time passes between two lookups.
TickerTick ==
    /\ redis_client # "unset"
    /\ now + ClockStep <= MaxTickerNow
    /\ now' = now + ClockStep
    /\ UNCHANGED <<breaker, callers>>
    /\ UNCHANGED <<reportVars, engineVars, newsVars, helperVars>>

TickerNext == NewService \/ GetTickerInfo \/ TickerTick

SpecTicker == NewsInit /\ [][TickerNext]_vars

(***************************************************************************)
(* backend/services/financial_data_service.py: get_multi_ticker_data.  The *)
(* service has no cache (redis_client None, the default).  Every lookup of *)
(* the batch is handed to the executor when the batch starts, and its      *)
(* asyncio.wait_for deadline runs from then on; a lookup whose upstream    *)
(* answers takes no time on the scale of that deadline.                    *)
(***************************************************************************)
executor_max_workers == 4
MaxTickers == 5

Symbols == <<"T1", "T2", "T3", "T4", "T5", "T6">>

\* What is asked for a ticker of the batch: invalid tickers have six
\* characters; the upstream answers, raises, or does not answer in time.
Asked(i, kind) ==
    [ticker |-> Ticker(Symbols[i], IF kind = "invalid" THEN 6 ELSE 4, TRUE),
     upstream |-> IF kind = "ok" THEN "info1"
                  ELSE IF kind = "error" THEN "network_error"
                  ELSE IF kind = "hang" THEN "hang"
                  ELSE "none"]

Kinds == {"invalid", "ok", "error", "hang"}

Requests ==
    UNION {{[i \in 1..n |-> Asked(i, kinds[i])] : kinds \in [1..n -> Kinds]} :
              n \in 0..MaxTickers}

\* The positions of the valid tickers, in order (valid_tickers, line 263).
RECURSIVE ValidFrom(_, _)
ValidFrom(request, i) ==
    IF i > Len(request) THEN <<>>
    ELSE IF validate_ticker(request[i].ticker) THEN <<i>> \o ValidFrom(request, i + 1)
    ELSE ValidFrom(request, i + 1)

MultiTask(i, status, result) == [index |-> i, status |-> status, result |-> result]

\* get_ticker_info for one ticker of the batch, its upstream answering or
\* raising; it raises nothing, so _get_ticker_with_fallback returns its value.
_get_ticker_with_fallback(asked, b) ==
    get_ticker_info(asked.ticker, "none", [k \in CacheKeys |-> NoEntry], b, 0,
                    "ok", "ok", <<asked.upstream, asked.upstream, asked.upstream>>)

\* The dict built from the results (lines 283-300).
TickerData(request, done_tasks) ==
    [s \in {request[i].ticker.symbol : i \in 1..Len(request)} |->
        IF \E k \in 1..Len(done_tasks) : request[done_tasks[k].index].ticker.symbol = s
        THEN LET k == CHOOSE k \in 1..Len(done_tasks) :
                          request[done_tasks[k].index].ticker.symbol = s
             IN  done_tasks[k].result
        ELSE NoInfo]

MultiRunning == {k \in 1..Len(multi_tasks) : multi_tasks[k].status = "running"}

\* get_multi_ticker_data up to asyncio.gather: an empty list and a list without
\* a valid ticker are answered at once; otherwise one task per valid ticker
\* is created and each hands its lookup to the executor.
GetMultiTickerData ==
    /\ multi_pc = "idle"
    /\ \E request \in Requests :
          LET valid_tickers == ValidFrom(request, 1)
          IN  /\ multi_request' = request
              /\ IF request = <<>> \/ valid_tickers = <<>>
                 THEN /\ multi_tasks' = <<>>
                      /\ multi_result' = TickerData(request, <<>>)
                      /\ multi_pc' = "done"
                 ELSE /\ multi_tasks' = [k \in 1..Len(valid_tickers) |->
                                            MultiTask(valid_tickers[k], "queued", NoInfo)]
                      /\ multi_result' = multi_result
                      /\ multi_pc' = "gather"
    /\ UNCHANGED <<resolve_call, extract_calls, truncate_call, batch_call, tickerVars>>
    /\ UNCHANGED <<reportVars, engineVars, newsVars, resilienceVars>>

\* A free worker thread of the executor takes the lookup queued first.
WorkerStart(k) ==
    /\ multi_pc = "gather"
    /\ multi_tasks[k].status = "queued"
    /\ \A j \in 1..(k - 1) : multi_tasks[j].status # "queued"
    /\ Cardinality(MultiRunning) < executor_max_workers
    /\ multi_tasks' = [multi_tasks EXCEPT ![k].status = "running"]
    /\ UNCHANGED <<multi_pc, multi_request, multi_result>>
    /\ UNCHANGED <<resolve_call, extract_calls, truncate_call, batch_call, tickerVars>>
    /\ UNCHANGED <<reportVars, engineVars, newsVars, resilienceVars>>

\* The upstream answers or raises: the lookup returns and its thread is free.
WorkerFinish(k) ==
    /\ multi_pc = "gather"
    /\ multi_tasks[k].status = "running"
    /\ multi_request[multi_tasks[k].index].upstream # "hang"
    /\ LET out == _get_ticker_with_fallback(multi_request[multi_tasks[k].index], breaker)
       IN  /\ multi_tasks' = [multi_tasks EXCEPT ![k].status = "done",
                                                  ![k].result = out.result]
           /\ breaker' = out.breaker
    /\ UNCHANGED <<now, callers>>
    /\ UNCHANGED <<multi_pc, multi_request, multi_result>>
    /\ UNCHANGED <<resolve_call, extract_calls, truncate_call, batch_call, tickerVars>>
    /\ UNCHANGED <<reportVars, engineVars, newsVars>>

\* Nothing else can happen before the 30 seconds of asyncio.wait_for are over:
\* every lookup still running or queued ends with TimeoutError, and
\* get_ticker_info returns None for it (lines 140-146).
Deadline ==
    /\ multi_pc = "gather"
    /\ \E k \in 1..Len(multi_tasks) : multi_tasks[k].status # "done"
    /\ \A k \in 1..Len(multi_tasks) :
          /\ ~ENABLED WorkerStart(k)
          /\ ~ENABLED WorkerFinish(k)
    /\ multi_tasks' = [k \in 1..Len(multi_tasks) |->
                          IF multi_tasks[k].status = "done" THEN multi_tasks[k]
                          ELSE MultiTask(multi_tasks[k].index, "done", NoInfo)]
    /\ UNCHANGED <<multi_pc, multi_request, multi_result>>
    /\ UNCHANGED <<resolve_call, extract_calls, truncate_call, batch_call, tickerVars>>
    /\ UNCHANGED <<reportVars, engineVars, newsVars, resilienceVars>>

\* asyncio.gather has every result: the dict is built and returned.
Gather ==
    /\ multi_pc = "gather"
    /\ \A k \in 1..Len(multi_tasks) : multi_tasks[k].status = "done"
    /\ multi_result' = TickerData(multi_request, multi_tasks)
    /\ multi_pc' = "done"
    /\ UNCHANGED <<multi_request, multi_tasks>>
    /\ UNCHANGED <<resolve_call, extract_calls, truncate_call, batch_call, tickerVars>>
    /\ UNCHANGED <<reportVars, engineVars, newsVars, resilienceVars>>

MultiNext ==
    \/ GetMultiTickerData
    \/ \E k \in 1..Len(multi_tasks) : WorkerStart(k)
    \/ \E k \in 1..Len(multi_tasks) : WorkerFinish(k)
    \/ Deadline
    \/ Gather

SpecMulti == NewsInit /\ [][MultiNext]_vars

(***************************************************************************)
(* Properties of AnalysisReport.                                           *)
(***************************************************************************)
\* The confidences of the articles of arts at the indices in idx, summed.
RECURSIVE WeightAt(_, _)
WeightAt(arts, idx) ==
    IF idx = {} THEN Zero
    ELSE LET i == CHOOSE x \in idx : TRUE
         IN  RAdd(arts[i].content_sentiment.confidence, WeightAt(arts, idx \ {i}))

WeightOf(arts, labels) ==
    WeightAt(arts, {i \in 1..Len(arts) : arts[i].content_sentiment.label \in labels})

TotalWeight(arts) == WeightAt(arts, 1..Len(arts))

\* The confidence-weighted score of section 4.5.
WeightedFormula(arts) ==
    IF TotalWeight(arts) = Zero THEN Zero
    ELSE RDiv(RSub(WeightOf(arts, {"Positive"}), WeightOf(arts, {"Negative"})),
              TotalWeight(arts))

\* The signal classification of section 4.5.
SignalOf(score) ==
    CASE RGt(score, R(15, 100)) -> "BULLISH"
      [] RLt(score, R(-15, 100)) -> "BEARISH"
      [] OTHER -> "NEUTRAL"

\* A dict's integer values summed.
RECURSIVE SumCounts(_)
SumCounts(d) ==
    IF DOMAIN d = {} THEN 0
    ELSE LET k == CHOOSE x \in DOMAIN d : TRUE
         IN  d[k] + SumCounts([x \in DOMAIN d \ {k} |-> d[x]])

PositiveAt90 ==
    AnalyzedArticle(TRUE, ContentSentiment(R(9, 10), "Positive", R(1, 20), R(1, 20), R(9, 10)))
NegativeAt50 ==
    AnalyzedArticle(TRUE, ContentSentiment(R(1, 2), "Negative", R(1, 2), R(1, 4), R(1, 4)))
ScenarioA == <<PositiveAt90, PositiveAt90, PositiveAt90, NegativeAt50, NegativeAt50>>

\* C1: create_from_articles computes net_sentiment_score as
\* sum(direction_i * confidence_i) / sum(confidence_i) with direction +1 for
\* Positive, -1 for Negative and 0 otherwise; three Positive units at 0.9 and
\* two Negative units at 0.5 give 1.7/3.7 = 17/37 and BULLISH.
C1_NetScoreIsWeightedFormula ==
    made_by = "create_from_articles" =>
        /\ RGt(TotalWeight(articles), Zero) =>
              RMul(report.net_sentiment_score, TotalWeight(articles))
                 = RSub(WeightOf(articles, {"Positive"}), WeightOf(articles, {"Negative"}))
        /\ articles = ScenarioA =>
              /\ report.net_sentiment_score = R(17, 37)
              /\ report.market_signal = "BULLISH"

C1_Witness ==
    /\ made_by = "create_from_articles"
    /\ articles = ScenarioA
    /\ report.articles = ScenarioA

\* C2: a derived market_signal is BULLISH exactly when net_sentiment_score > 0.15,
\* BEARISH exactly when it is < -0.15 and NEUTRAL otherwise; a score of exactly
\* 0.15 or -0.15 gives NEUTRAL.
C2_SignalThresholds ==
    (made_by # "none" /\ ctor_args.market_signal = "") =>
        /\ report.market_signal = "BULLISH" <=> RGt(report.net_sentiment_score, R(15, 100))
        /\ report.market_signal = "BEARISH" <=> RLt(report.net_sentiment_score, R(-15, 100))
        /\ report.market_signal = "NEUTRAL" <=>
              /\ RLe(report.net_sentiment_score, R(15, 100))
              /\ RLe(R(-15, 100), report.net_sentiment_score)
        /\ report.net_sentiment_score \in {R(15, 100), R(-15, 100)} =>
              report.market_signal = "NEUTRAL"

C2_Witness ==
    /\ made_by # "none"
    /\ ctor_args.market_signal = ""
    /\ report.net_sentiment_score = R(15, 100)
    /\ report.market_signal = "NEUTRAL"

\* C3 as stated: for every unit list whose confidences sum to zero, the empty
\* list included, create_from_articles yields score 0.0 and NEUTRAL; for the
\* empty list also total_articles 0, an all-zero distribution, and a report that
\* validate() accepts.
C3_ZeroWeightAsStated ==
    (made_by = "create_from_articles" /\ TotalWeight(articles) = Zero) =>
        /\ report.net_sentiment_score = Zero
        /\ report.market_signal = "NEUTRAL"
        /\ articles = <<>> =>
              /\ report.total_articles = 0
              /\ report.sentiment_distribution =
                    ("Positive" :> 0 @@ "Negative" :> 0 @@ "Neutral" :> 0)
              /\ validate(report)

\* C3 amended: as above, and the empty list's report is accepted by validate()
\* whenever the processing_time handed over is not negative.
C3_ZeroWeight ==
    (made_by = "create_from_articles" /\ TotalWeight(articles) = Zero) =>
        /\ report.net_sentiment_score = Zero
        /\ report.market_signal = "NEUTRAL"
        /\ articles = <<>> =>
              /\ report.total_articles = 0
              /\ report.sentiment_distribution =
                    ("Positive" :> 0 @@ "Negative" :> 0 @@ "Neutral" :> 0)
              /\ ctor_args.processing_time >= 0 => validate(report)

C3_Witness ==
    /\ made_by = "create_from_articles"
    /\ articles = <<>>
    /\ ctor_args.processing_time >= 0
    /\ report.total_articles = 0
    /\ validate(report)

\* C4 as stated: for every non-empty list handed to create_from_articles,
\* whatever the content labels, sentiment_distribution has exactly the keys
\* Positive, Negative and Neutral and its values sum to the number of units.
C4_DistributionCountsEveryUnit ==
    (made_by = "create_from_articles" /\ articles # <<>>) =>
        /\ DOMAIN report.sentiment_distribution = SentimentLabels
        /\ SumCounts(report.sentiment_distribution) = Len(articles)

\* C4 amended: the keys are exactly the three labels for every non-empty list,
\* and the values sum to the number of units whose content label is one of the
\* three labels, which is the number of units when every label is.
C4_DistributionCountsLabelledUnits ==
    (made_by = "create_from_articles" /\ articles # <<>>) =>
        /\ DOMAIN report.sentiment_distribution = SentimentLabels
        /\ SumCounts(report.sentiment_distribution) =
              Cardinality({i \in 1..Len(articles) :
                              articles[i].content_sentiment.label \in SentimentLabels})
        /\ \A l \in SentimentLabels :
              report.sentiment_distribution[l] =
                 Cardinality({i \in 1..Len(articles) :
                                 articles[i].content_sentiment.label = l})

C4_Witness ==
    /\ made_by = "create_from_articles"
    /\ Len(articles) = 3
    /\ \A i \in 1..Len(articles) : articles[i].content_sentiment.label \in SentimentLabels
    /\ report.sentiment_distribution =
          ("Positive" :> 1 @@ "Negative" :> 1 @@ "Neutral" :> 1)

\* C5: however the report was constructed, validate() = true implies
\* sum(sentiment_distribution.values()) = total_articles,
\* len(articles) = total_articles and exactly the three distribution keys.
C5_ValidateImpliesInvariants ==
    (made_by # "none" /\ validate(report)) =>
        /\ SumCounts(report.sentiment_distribution) = report.total_articles
        /\ Len(report.articles) = report.total_articles
        /\ DOMAIN report.sentiment_distribution = SentimentLabels

\* C6: for every report validate() accepts, net_sentiment_score is the
\* confidence-weighted formula over its articles and market_signal is the
\* +/-0.15 classification of net_sentiment_score.
C6_ValidatedScoreAndSignalDerived ==
    (made_by # "none" /\ validate(report)) =>
        /\ report.net_sentiment_score = WeightedFormula(report.articles)
        /\ report.market_signal = SignalOf(report.net_sentiment_score)

(***************************************************************************)
(* Properties of SentimentEngine.                                          *)
(***************************************************************************)
IsMaximum(probabilities, k) ==
    /\ k \in DOMAIN probabilities
    /\ \A j \in DOMAIN probabilities : RLe(probabilities[j], probabilities[k])

\* C7: every ContentSentiment analyze_content returns (classified, blank text
\* or fallback) has confidence = probabilities[label], the maximum probability.
C7_ConfidenceIsLabelProbability ==
    engine_op = "analyze_content" =>
        /\ IsMaximum(content_result.probabilities, content_result.label)
        /\ content_result.confidence = content_result.probabilities[content_result.label]

\* C8: every ContentSentiment analyze_content returns has probabilities over
\* exactly the three labels that sum to 1.0 within 0.01, and its label is an
\* arg-max of them.
C8_ProbabilitiesSumToOneLabelArgMax ==
    engine_op = "analyze_content" =>
        /\ DOMAIN content_result.probabilities = SentimentLabels
        /\ RLe(RAbs(RSub(SumValues(content_result.probabilities), One)), R(1, 100))
        /\ IsMaximum(content_result.probabilities, content_result.label)

C8_Witness ==
    /\ engine_op = "analyze_content"
    /\ engine_path = "classified"
    /\ content_result.label = "Positive"
    /\ content_result.probabilities["Positive"] = R(5001, 10000)
    /\ content_result.probabilities["Neutral"] = R(5, 10)
    /\ SumValues(content_result.probabilities) # One

\* C9: analyze_content never raises; when the tokenizer or the classifier (or
\* anything else in the try block) raises, it returns Neutral, confidence 0.33,
\* probabilities 0.33 / 0.34 / 0.33, and that value passes validate().
C9_ContentFallbackOnError ==
    engine_op = "analyze_content" =>
        /\ ~engine_raised
        /\ engine_path = "error" =>
              /\ content_result.label = "Neutral"
              /\ content_result.confidence = R(33, 100)
              /\ content_result.probabilities =
                    ("Negative" :> R(33, 100) @@ "Neutral" :> R(34, 100)
                     @@ "Positive" :> R(33, 100))
              /\ ContentSentimentValidate(content_result)

C9_Witness ==
    /\ engine_op = "analyze_content"
    /\ engine_path = "error"
    /\ engine_text.kind = "str"
    /\ ~engine_raised
    /\ content_result.label = "Neutral"

\* C10: analyze_headline never raises; the label is Positive if score > 0.05,
\* Negative if score < -0.05 and Neutral otherwise; blank or missing input and
\* a lexicon-scorer error both yield score 0.0 with label Neutral.
C10_HeadlineLabelThresholds ==
    engine_op = "analyze_headline" =>
        /\ ~engine_raised
        /\ headline_result.label =
              (CASE RGt(headline_result.score, R(1, 20)) -> "Positive"
                 [] RLt(headline_result.score, R(-1, 20)) -> "Negative"
                 [] OTHER -> "Neutral")
        /\ engine_path \in {"blank", "error"} =>
              headline_result = [score |-> Zero, label |-> "Neutral"]
        /\ (engine_text.kind = "none" \/ (engine_text.kind = "str"
               /\ \A i \in 1..Len(engine_text.chars) : engine_text.chars[i] = " "))
              => engine_path = "blank"

C10_Witness ==
    /\ engine_op = "analyze_headline"
    /\ engine_path = "scored"
    /\ headline_result.score = R(1, 20)
    /\ headline_result.label = "Neutral"

(***************************************************************************)
(* Properties of NewsAggregator.fetch_articles.                            *)
(***************************************************************************)
TaskIds == 1..Len(tasks)
Returned == {i \in TaskIds : tasks[i].result.path = "returned"}
Dropped == {i \in TaskIds : tasks[i].result.path \in {"except", "invalid"}}
Collected == {i \in TaskIds : tasks[i].status = "collected"}
Fetched == {fetched_articles[k] : k \in 1..Len(fetched_articles)}

\* The number of entries taken from the feeds that did not raise.
RECURSIVE TakenUpTo(_)
TakenUpTo(q) ==
    IF q = 0 THEN 0
    ELSE TakenUpTo(q - 1) + (IF feed_log[q] = FeedRaised THEN 0 ELSE feed_log[q])

C12_DedupBeforeFanOut ==
    /\ (tasks # <<>>) => (next_query > MaxQueries /\ fetch_pc # "gather")
    /\ fetch_pc \in {"process", "done"} =>
          unique_links = {tasks[i].entry.link : i \in TaskIds}
    /\ \A i, j \in TaskIds : tasks[i].entry.link = tasks[j].entry.link => i = j

\* Two feeds gave four entries between them, three tasks were made of them.
C12_Witness ==
    /\ fetch_pc = "process"
    /\ feed_log = <<2, 2>>
    /\ Len(tasks) = 3
    /\ Cardinality(Running) = 2

\* C13: a returned article has a non-blank title and content and an http(s)
\* url; it is 'Headline Only' exactly when the extracted text was empty or
\* shorter than min_content_length, and then its content is its title;
\* otherwise it is 'Full Article' and its content is the extracted text.
C13_ReturnedArticlesValidAndTyped ==
    /\ \A a \in Fetched : \E i \in Returned : tasks[i].result.value = a
    /\ \A i \in Returned :
          LET a == tasks[i].result.value
              x == tasks[i].result.extracted
              short == StrLen(x) = 0 \/ StrLen(x) < min_content_length
          IN  /\ a.title # NoneStr /\ StrStrip(a.title) # Empty
              /\ a.content # NoneStr /\ StrStrip(a.content) # Empty
              /\ a.url.scheme \in {"http", "https"}
              /\ (a.source_type = "Headline Only") <=> short
              /\ short => a.content = a.title
              /\ ~short => (a.source_type = "Full Article" /\ a.content = x)

C13_Witness ==
    /\ fetch_pc = "done"
    /\ \E i, j \in Returned :
          /\ tasks[i].result.extracted = Short
          /\ tasks[i].result.value.source_type = "Headline Only"
          /\ tasks[i].result.value \in Fetched
          /\ tasks[j].result.extracted = AtMin
          /\ tasks[j].result.value.source_type = "Full Article"
          /\ tasks[j].result.value \in Fetched

(***************************************************************************)
(* Properties of start_analysis.                                           *)
(***************************************************************************)
\* C14: when every feed gave no entry, fetch_articles returns the empty list
\* and start_analysis answers 'No articles found' without building a report;
\* and no 'completed' answer carries a report of zero articles.
C14_NoArticlesNoReport ==
    /\ (fetch_pc = "done" /\ \A q \in 1..Len(feed_log) : feed_log[q] = 0)
          => fetched_articles = <<>>
    /\ (analysis_pc = "answered" /\ fetched_articles = <<>>)
          => (response = NotFound /\ report = NoReport)
    /\ response.completed => report.total_articles > 0

C14_Witness ==
    /\ analysis_pc = "answered"
    /\ feed_log = <<0, 0>>
    /\ response = NotFound

\* C15: when the content score of every article of the batch is the neutral
\* fallback, start_analysis does not answer 'completed'.
C15_NoReportWhenClassifierFailsForAll ==
    (analysis_pc = "answered"
       /\ analyzed_articles # <<>>
       /\ \A i \in 1..Len(analyzed_articles) :
             analyzed_articles[i].content_sentiment = NeutralFallback)
      => ~response.completed

(***************************************************************************)
(* Properties of NewsAggregator.deduplicate_articles.                      *)
(***************************************************************************)
Normalized(a) == StrStrip(StrLower(a.title))

\* Whether position i of list L is kept: neither its url nor its normalized
\* title is on a kept article before it.
RECURSIVE Kept(_, _)
Kept(L, i) ==
    \A j \in 1..(i - 1) :
        Kept(L, j) => (L[j].url # L[i].url /\ Normalized(L[j]) # Normalized(L[i]))

RECURSIVE KeptSeq(_, _)
KeptSeq(L, i) ==
    IF i > Len(L) THEN <<>>
    ELSE IF Kept(L, i) THEN <<L[i]>> \o KeptSeq(L, i + 1)
    ELSE KeptSeq(L, i + 1)

\* C16: a second pass over the output of deduplicate_articles returns the same
\* articles in the same order.
C16_DedupIdempotent == dedup_done => dedup_again = dedup_output

C16_Witness ==
    /\ dedup_done
    /\ Len(dedup_input) = 3
    /\ Len(dedup_output) = 2
    /\ dedup_again = dedup_output

\* C17: the output is, in input order, the articles whose url and normalized
\* title are on no kept article before them; its urls are pairwise distinct,
\* its normalized titles are pairwise distinct, and it is empty only for an
\* empty input.
C17_DedupKeepsFirstOccurrences ==
    dedup_done =>
        /\ dedup_output = KeptSeq(dedup_input, 1)
        /\ \A i, j \in 1..Len(dedup_output) :
              i # j => /\ dedup_output[i].url # dedup_output[j].url
                       /\ Normalized(dedup_output[i]) # Normalized(dedup_output[j])
        /\ dedup_input # <<>> => dedup_output # <<>>

\* A second article with a new url and the first one's title in another case
\* is dropped, a third with a new title is kept.
C17_Witness ==
    /\ dedup_done
    /\ Len(dedup_input) = 3
    /\ dedup_input[1].url # dedup_input[2].url
    /\ dedup_input[1].title # dedup_input[2].title
    /\ Normalized(dedup_input[1]) = Normalized(dedup_input[2])
    /\ dedup_output = <<dedup_input[1], dedup_input[3]>>

(***************************************************************************)
(* Properties of the retry and circuit-breaker policies on the ticker      *)
(* fetch.                                                                  *)
(***************************************************************************)
InFlight == {w \in Workers : callers[w].pc # "idle"}
Trials == {w \in InFlight : callers[w].trial}

\* The steps of worker w: its call reaches the breaker, its outcome reaches
\* the breaker.
CallStep(w) == callers[w].pc = "idle" /\ callers'[w] # callers[w]
ReportStep(w) == callers[w].pc \in {"succeeded", "failed"} /\ callers'[w].pc = "idle"
Rejected(w) ==
    /\ callers'[w].pc = "idle"
    /\ callers'[w].result = "CircuitOpen"
    /\ callers'[w].invocations = 0
    /\ breaker' = breaker

\* C18: with failure_threshold 3 and recovery_timeout 300: a success reported
\* to a closed breaker leaves it closed with consecutive_failures 0; a failure
\* reported to it counts one more and the third in a row opens it at the
\* current time; a call that reaches an open breaker less than 300 s after
\* opened_at is answered CircuitOpen with no invocation and the breaker
\* untouched; a call that reaches it later is admitted as the trial of a
\* half-open breaker; the trial's success closes the breaker with the counter
\* at 0 and its failure opens it again at the current time.
C18_BreakerTransitions ==
    /\ [](breaker.state = "Closed" <=> breaker.consecutive_failures < failure_threshold)
    /\ [](breaker.state # "Closed" => breaker.opened_at # Null)
    /\ [][\A w \in Workers :
            /\ (ReportStep(w) /\ breaker.state = "Closed"
                   /\ callers[w].pc = "succeeded")
                 => breaker' = CircuitState("Closed", 0, Null)
            /\ (ReportStep(w) /\ breaker.state = "Closed"
                   /\ callers[w].pc = "failed")
                 => IF breaker.consecutive_failures + 1 = failure_threshold
                    THEN breaker' = CircuitState("Open", failure_threshold, now)
                    ELSE breaker' = CircuitState("Closed",
                                       breaker.consecutive_failures + 1, Null)
            /\ (CallStep(w) /\ breaker.state = "Open"
                   /\ now - breaker.opened_at < recovery_timeout)
                 => Rejected(w)
            /\ (CallStep(w) /\ breaker.state = "Open"
                   /\ now - breaker.opened_at >= recovery_timeout)
                 => (/\ callers'[w].pc = "calling"
                     /\ callers'[w].trial
                     /\ breaker'.state = "HalfOpen")
            /\ (ReportStep(w) /\ callers[w].trial /\ callers[w].pc = "succeeded")
                 => breaker' = CircuitState("Closed", 0, Null)
            /\ (ReportStep(w) /\ callers[w].trial /\ callers[w].pc = "failed")
                 => (breaker'.state = "Open" /\ breaker'.opened_at = now)
         ]_vars

\* A trial has failed and opened the breaker again; the other worker's call
\* met the open breaker and was rejected.
C18_Witness ==
    /\ breaker.state = "Open"
    /\ breaker.opened_at >= recovery_timeout
    /\ \E w, v \in Workers :
          /\ callers[w].pc = "idle" /\ callers[w].trial
          /\ callers[w].result = "failed"
          /\ callers[v].pc = "idle" /\ callers[v].seen = "Open"
          /\ callers[v].result = "CircuitOpen"

\* C19: at most one call is in flight as the trial, and the breaker is
\* half-open exactly while it is; a call that reaches a half-open breaker is
\* answered CircuitOpen; every failure reported to a closed breaker counts
\* one, and state, counter and opened_at change together.
C19_OneTrialNoLostUpdate ==
    /\ [](Cardinality(Trials) <= 1)
    /\ [](breaker.state = "HalfOpen" <=> Trials # {})
    /\ [](breaker.state = "Closed" =>
            (breaker.opened_at = Null
             /\ breaker.consecutive_failures < failure_threshold))
    /\ [](breaker.state # "Closed" =>
            (breaker.opened_at # Null
             /\ breaker.consecutive_failures >= failure_threshold))
    /\ [][\A w \in Workers :
            /\ (CallStep(w) /\ breaker.state = "HalfOpen") => Rejected(w)
            /\ (ReportStep(w) /\ breaker.state = "Closed"
                   /\ callers[w].pc = "failed")
                 => breaker'.consecutive_failures = breaker.consecutive_failures + 1
         ]_vars

\* One worker's call is the trial in flight, the other's met the half-open
\* breaker and was rejected.
C19_Witness ==
    /\ breaker.state = "HalfOpen"
    /\ \E w, v \in Workers :
          /\ callers[w].pc # "idle" /\ callers[w].trial
          /\ callers[v].pc = "idle" /\ callers[v].seen = "HalfOpen"
          /\ callers[v].result = "CircuitOpen"

\* C20: with max_retries 2, base_delay 1 and max_delay 10 a call invokes the
\* wrapped operation at most 3 times; the wait before a retry is
\* min(base_delay * 2^attempt, max_delay), which is at most max_delay for
\* every attempt number; and after a permanent failure there is no retry.
C20_RetryBoundedBackoff ==
    /\ \A w \in Workers :
          /\ callers[w].invocations <= max_retries + 1
          /\ callers[w].pc = "backoff" =>
                /\ callers[w].outcome = "transient"
                /\ callers[w].delay =
                      Min(base_delay * (2 ^ callers[w].attempt), max_delay)
                /\ callers[w].delay <= max_delay
          /\ callers[w].outcome = "permanent" => callers[w].pc \in {"failed", "idle"}
    /\ \A attempt \in 0..MaxAttemptCount :
          /\ RetryDelay(attempt) = Min(base_delay * (2 ^ attempt), max_delay)
          /\ RetryDelay(attempt) <= max_delay

\* Three transient failures: the call was invoked three times, with waits of
\* 1 s and 2 s, and has failed.
C20_Witness ==
    \E w \in Workers :
        /\ callers[w].pc = "failed"
        /\ callers[w].outcome = "transient"
        /\ callers[w].invocations = max_retries + 1
        /\ callers[w].delay = 2

(***************************************************************************)
(* Properties of AnalysisReport.create_from_articles on validated units.   *)
(***************************************************************************)
AllValidated(arts) == \A i \in 1..Len(arts) : AnalyzedArticleValidate(arts[i])

\* C23: for every list of AnalyzedArticles that each pass validate() and every
\* processing_time >= 0, create_from_articles returns a report that validate()
\* accepts, with market_signal in {BULLISH, BEARISH, NEUTRAL} and
\* net_sentiment_score in [-1, 1].
C23_ValidatedUnitsGiveValidReport ==
    (/\ made_by = "create_from_articles"
     /\ AllValidated(articles)
     /\ ctor_args.processing_time >= 0) =>
        /\ validate(report)
        /\ report.market_signal \in {"BULLISH", "BEARISH", "NEUTRAL"}
        /\ RLe(RNeg(One), report.net_sentiment_score)
        /\ RLe(report.net_sentiment_score, One)

C23_Witness ==
    /\ made_by = "create_from_articles"
    /\ Len(articles) >= 3
    /\ AllValidated(articles)
    /\ ctor_args.processing_time >= 0
    /\ \E i, j \in 1..Len(articles) :
          /\ articles[i].content_sentiment.label = "Positive"
          /\ articles[j].content_sentiment.label = "Negative"
    /\ validate(report)
    /\ report.market_signal = "BULLISH"

(***************************************************************************)
(* Properties of the list NewsAggregator.fetch_articles returns.           *)
(***************************************************************************)
\* C24: fetch_articles returns a list of unique articles: no two articles
\* returned by one call have the same url.
C24_ReturnedUrlsUnique ==
    fetch_pc = "done" =>
        \A i, j \in 1..Len(fetched_articles) :
            i # j => fetched_articles[i].url # fetched_articles[j].url

(***************************************************************************)
(* Properties of resolve_google_urls and _resolve_single_url.              *)
(***************************************************************************)
HasUrlParameter(url) == url.netloc = "news.google.com" /\ url.target # NoTarget

\* C26: resolve_google_urls returns one URL per input link in input order and
\* raises nothing: for a news.google.com link with a url query parameter the
\* destination, without a network request; otherwise the final location of
\* the redirect-following HEAD request; and the original link if anything
\* raised.
C26_ResolveTotalAndOrdered ==
    resolve_call.done =>
        /\ Len(resolve_call.value) = Len(resolve_call.urls)
        /\ \A i \in 1..Len(resolve_call.urls) :
              LET url == resolve_call.urls[i]
                  head == resolve_call.heads[i]
                  run == resolve_call.runs[i]
                  out == resolve_call.value[i]
              IN  /\ ~run.raises
                  /\ out = _resolve_single_url(url, head)
                  /\ IF url = Malformed
                     THEN out = url
                     ELSE IF HasUrlParameter(url)
                     THEN out = AsUrl(url.target) /\ ~run.head_requested
                     ELSE /\ run.head_requested
                          /\ out = IF head.raises THEN url ELSE head.url

C26_Witness ==
    /\ resolve_call.done
    /\ Len(resolve_call.urls) = 2
    /\ HasUrlParameter(resolve_call.urls[1])
    /\ resolve_call.value[1] = AsUrl(Publisher(1))
    /\ ~HasUrlParameter(resolve_call.urls[2])
    /\ resolve_call.heads[2].raises
    /\ resolve_call.value[2] = resolve_call.urls[2]
    /\ resolve_call.urls[2] # Malformed

(***************************************************************************)
(* Properties of extract_content.                                          *)
(***************************************************************************)
\* The primary extraction yields no text: nothing downloaded, nothing
\* extracted, or only whitespace.
PrimaryNoText(page) ==
    \/ page.fetch = "none"
    \/ /\ page.fetch = "html"
       /\ ~page.extract.raises
       /\ (page.extract.value = NoneStr \/ StrStrip(page.extract.value) = Empty)

FallbackNoText(page) ==
    page.fallback.raises \/ StrStrip(page.fallback.text) = Empty

\* C27: whenever the primary extraction yields no text, extract_content
\* attempts the strip-markup fallback, and it returns the empty string only
\* when both the primary and the fallback extraction yield no text.
C27_FallbackWheneverPrimaryEmpty ==
    \A i \in 1..Len(extract_calls) :
        LET page == extract_calls[i].page
            run == extract_calls[i].run
        IN  /\ PrimaryNoText(page) => run.fallback_attempted
            /\ (PrimaryNoText(page) /\ run.value = Empty) => FallbackNoText(page)

(***************************************************************************)
(* Properties of _truncate_text.                                           *)
(***************************************************************************)
\* The first k pieces, each followed by sep.
RECURSIVE JoinFirst(_, _, _)
JoinFirst(parts, k, sep) ==
    IF k = 0 THEN <<>> ELSE JoinFirst(parts, k - 1, sep) \o parts[k] \o sep

\* The first sentence, with its full stop, is no longer than max_text_length.
SentenceFits(text) ==
    LET sentences == SplitSentences(text, <<>>)
    IN  Len(sentences) >= 2 /\ Len(sentences[1]) + 1 <= max_text_length

WordFits(text) ==
    LET words == SplitWords(text, <<>>)
    IN  words # <<>> /\ Len(words[1]) <= max_text_length

FromSentences(text, out) ==
    LET sentences == SplitSentences(text, <<>>)
    IN  \E k \in 1..Len(sentences) : out = Strip(JoinFirst(sentences, k, <<".", " ">>))

FromWords(text, out) ==
    LET words == SplitWords(text, <<>>)
    IN  \E k \in 1..Len(words) : out = Strip(JoinFirst(words, k, <<" ">>))

\* C28: _truncate_text returns the text unchanged when it is no longer than
\* max_text_length; otherwise the result is no longer than max_text_length
\* and is built from whole leading sentences if at least one complete
\* sentence fits, else from whole leading words if at least one word fits,
\* else from the first max_text_length characters.
C28_TruncateAtBoundaries ==
    truncate_call.done =>
        LET text == truncate_call.text
            out == truncate_call.value
        IN  IF Len(text) <= max_text_length THEN out = text
            ELSE /\ Len(out) <= max_text_length
                 /\ IF SentenceFits(text) THEN FromSentences(text, out)
                    ELSE IF WordFits(text) THEN FromWords(text, out)
                    ELSE out = Strip(SubSeq(text, 1, max_text_length))

(***************************************************************************)
(* Properties of analyze_articles_batch.                                   *)
(***************************************************************************)
\* The classifier was called for the article and failed.
ClassifierFailed(i) ==
    /\ BlankTest(EngineText(batch_call.articles[i].content)) = "text"
    /\ batch_call.classifiers[i].raises

\* C29: analyze_articles_batch returns one AnalyzedArticle per input article,
\* in input order, each holding its input article unchanged; an article whose
\* classifier call failed has the Neutral fallback content score, and every
\* article has the scores it has when analyzed alone.
C29_BatchOnePerArticle ==
    batch_call.done =>
        /\ Len(batch_call.value) = Len(batch_call.articles)
        /\ \A i \in 1..Len(batch_call.articles) :
              /\ i <= Len(batch_call.value)
              /\ batch_call.value[i].article = batch_call.articles[i]
              /\ ClassifierFailed(i) =>
                     batch_call.value[i].content_sentiment = NeutralFallback
              /\ batch_call.value[i] =
                     analyze_articles_batch(<<batch_call.articles[i]>>,
                                            <<batch_call.vaders[i]>>,
                                            <<batch_call.classifiers[i]>>)[1]

C29_Witness ==
    /\ batch_call.done
    /\ Len(batch_call.articles) = 2
    /\ ClassifierFailed(1)
    /\ batch_call.value[1].content_sentiment = NeutralFallback
    /\ ~batch_call.classifiers[2].raises
    /\ batch_call.value[2].content_sentiment.label = "Positive"
    /\ batch_call.value[2].article = batch_call.articles[2]
    /\ batch_call.articles[1] # batch_call.articles[2]

(***************************************************************************)
(* Properties of FinancialDataService.get_ticker_info and its cache.       *)
(***************************************************************************)
\* What the last lookup returns when it fetches upstream without a cache.
DirectResult ==
    get_ticker_info(lookup.ticker, "none", lookup.cache_before, lookup.breaker_before,
                    lookup.at, "ok", "ok", lookup.upstreams).result

\* C21: with no cache, or a cache whose get raises, _get_from_cache reports a
\* miss and get_ticker_info returns what a direct upstream fetch returns; with
\* no cache, or a cache whose set raises, _set_cache changes nothing and the
\* lookup returns what it fetched.
C21_CacheFailureNeverFailsLookup ==
    lookup.n > 0 =>
        /\ (redis_client = "none" \/ lookup.get = "raises") =>
               /\ lookup.cached_data = NoInfo
               /\ lookup.result = DirectResult
        /\ (redis_client = "none" \/ lookup.set = "raises") =>
               /\ cache = lookup.cache_before
               /\ lookup.cached_data = NoInfo => lookup.result = DirectResult

C21_Witness ==
    /\ lookup.n = 2
    /\ redis_client = "redis"
    /\ lookup.get = "raises"
    /\ lookup.set = "raises"
    /\ lookup.ticker.symbol = "AAPL"
    /\ RedisGet(lookup.cache_before, "AAPL", lookup.at) = TickerInfo("AAPL", 1)
    /\ lookup.result = TickerInfo("AAPL", 2)
    /\ cache = lookup.cache_before

\* The unexpired entry the last lookup found for its ticker, if any.
UnexpiredEntry ==
    IF validate_ticker(lookup.ticker)
    THEN RedisGet(lookup.cache_before, lookup.ticker.symbol, lookup.at)
    ELSE NoInfo

\* C30: get_ticker_info writes a cache entry only after a successful upstream
\* fetch, the entry being the record returned; a lookup that fails, times
\* out, is rejected by the breaker or has an invalid ticker leaves the cache
\* unchanged; and a lookup answered from an unexpired entry calls no
\* upstream and writes nothing.
C30_CacheWrittenOnlyOnSuccess ==
    lookup.n > 0 =>
        /\ cache # lookup.cache_before =>
               /\ lookup.path = "fetched"
               /\ lookup.upstream_calls > 0
               /\ lookup.upstreams[1] \in {"info1", "info2"}
               /\ cache[lookup.ticker.symbol] =
                      CacheEntry(lookup.result, lookup.at + cache_ttl)
        /\ lookup.path \in {"invalid", "no_data", "Failed", "Timeout", "CircuitOpen"} =>
               /\ lookup.result = NoInfo
               /\ cache = lookup.cache_before
        /\ (redis_client = "redis" /\ lookup.get = "ok" /\ UnexpiredEntry # NoInfo) =>
               /\ lookup.path = "cached"
               /\ lookup.result = UnexpiredEntry
               /\ lookup.upstream_calls = 0
               /\ cache = lookup.cache_before

C30_Witness ==
    /\ lookup.n = 2
    /\ lookup.path = "cached"
    /\ lookup.upstreams[1] = "info2"
    /\ lookup.result = TickerInfo("AAPL", 1)
    /\ lookup.upstream_calls = 0
    /\ cache = lookup.cache_before
    /\ cache["AAPL"] = CacheEntry(TickerInfo("AAPL", 1), cache_ttl)
    /\ lookup.at > 0

(***************************************************************************)
(* Properties of _fetch_ticker_data under its retry and breaker policies.  *)
(***************************************************************************)
UpstreamErrors == {"network_error", "timeout_error"}

\* The last lookup called the upstream, which raised a network or timeout
\* error.
UpstreamFailed ==
    /\ lookup.n > 0
    /\ lookup.upstream_calls > 0
    /\ lookup.upstreams[1] \in UpstreamErrors

\* C25: a network or timeout failure of the upstream lookup inside
\* _fetch_ticker_data is seen as a failure by the policies around it: the
\* lookup is retried, up to max_retries times, and if every attempt fails the
\* breaker counts one more consecutive failure (and opens at
\* failure_threshold).
C25_UpstreamFailureReachesPolicies ==
    UpstreamFailed =>
        /\ lookup.upstream_calls > 1
        /\ (\A i \in 1..(max_retries + 1) : lookup.upstreams[i] \in UpstreamErrors) =>
               /\ lookup.upstream_calls = max_retries + 1
               /\ breaker = OnFailure(lookup.breaker_before, FALSE, lookup.at)

(***************************************************************************)
(* Properties of get_multi_ticker_data.                                    *)
(***************************************************************************)
\* What get_ticker_info returns for the ticker when it is looked up alone.
Alone(asked) ==
    IF asked.upstream = "hang" THEN NoInfo
    ELSE _get_ticker_with_fallback(asked, CircuitState("Closed", 0, Null)).result

\* C22: get_multi_ticker_data returns a map with one entry for every
\* requested ticker, valid or not, and every ticker maps to what its own
\* lookup gives: None for an invalid, failing or timed-out one, unchanged by
\* the failure of any other ticker of the batch.
C22_OneEntryPerTickerIsolated ==
    multi_pc = "done" =>
        /\ DOMAIN multi_result =
               {multi_request[i].ticker.symbol : i \in 1..Len(multi_request)}
        /\ \A i \in 1..Len(multi_request) :
               multi_result[multi_request[i].ticker.symbol] = Alone(multi_request[i])

====
